---- MODULE Spec2Model ----
(***************************************************************************)
(* Model of the client-side editing core of the event planner:             *)
(*   - the entity records and AppState (src/src/types.ts),                 *)
(*   - the undo/redo history store and the delta engine                    *)
(*     (src/src/hooks/useUndoRedo.ts),                                     *)
(*   - the save, auto-save and import handlers of EventPage                *)
(*     (src/unnamed/part_004).                                             *)
(***************************************************************************)
EXTENDS Integers, Sequences, FiniteSets, TLC

VARIABLES
    past,          \* history.past: AppState[]
    present,       \* history.present: AppState
    future,        \* history.future: AppState[]
    baseline,      \* baselineRef.current
    baselineIds,   \* baselineIdsRef.current: three insertion-ordered id sets
    dataLoaded,    \* EventPage: dataLoaded
    hasUnsaved,    \* EventPage: hasUnsavedChanges as of the last effect run
    timer,         \* EventPage: the auto-save interval and the closure it holds
    inflight,      \* persistence writes issued and not yet settled
    saving,        \* EventPage: saving
    reader,        \* EventPage: the FileReaders started, each with its closure
    rendered,      \* <<>>, or the last render while a render or its effect is due
    lastSync,      \* record of the last markAsSynced() call
    lastOp,        \* the operation that produced the current state
    run,           \* observer of an execute^N undo^N redo^N sequence
    nExec,         \* execute() calls so far (history store alone)
    nOps,          \* edits, saves and imports so far (page)
    nImports,      \* onload callbacks that have drawn ids so far (page)
    arg,           \* the arguments of a call of a pure function, as <<args>>
    result         \* what the call returned, as <<value>>; <<>> before it

histVars == <<past, present, future>>
baseVars == <<baseline, baselineIds>>
pageVars == <<dataLoaded, hasUnsaved, timer, inflight, saving, reader,
              rendered, lastSync>>
cntVars  == <<nExec, nOps, nImports>>
hookVars == <<past, present, future, baseline, baselineIds, dataLoaded,
              hasUnsaved, timer, inflight, saving, reader, rendered, lastSync,
              lastOp, run, nExec, nOps, nImports>>
callVars == <<arg, result>>
vars == <<hookVars, callVars>>

----------------------------------------------------------------------------
(* Bounds of the exploration.                                              *)
MaxExec == 3     \* execute() calls in a run of the history store
MaxOps == 3      \* edits, saves and imports in a run of the page

----------------------------------------------------------------------------
(* Entities.  A record carries its fields and `keys`, the order in which   *)
(* its keys were inserted, which JSON.stringify follows.                   *)

Undefined == "undefined"

(* !v, for a string or undefined *)
Falsy(v) == v \in {Undefined, ""}

InitialBudget == 60000

GuestKeys == <<"id", "name", "groupId", "confirmed", "parentId", "isRoot">>
GuestKeysAlt == <<"name", "id", "groupId", "confirmed", "parentId", "isRoot">>
GroupKeys == <<"id", "name", "color">>
ExpenseKeys == <<"id", "category", "estimatedValue", "include">>

Guest(id, name, groupId, confirmed, parentId, isRoot, keys) ==
    [id |-> id, name |-> name, groupId |-> groupId, confirmed |-> confirmed,
     parentId |-> parentId, isRoot |-> isRoot, keys |-> keys]

GuestGroup(id, name, color) ==
    [id |-> id, name |-> name, color |-> color, keys |-> GroupKeys]

ExpenseItem(id, category, estimatedValue, include) ==
    [id |-> id, category |-> category, estimatedValue |-> estimatedValue,
     include |-> include, keys |-> ExpenseKeys]

AppState(budgetTotal, expenses, guests, guestGroups) ==
    [budgetTotal |-> budgetTotal, expenses |-> expenses, guests |-> guests,
     guestGroups |-> guestGroups]

(* The records the inputs are drawn from. *)
grpCasal == GuestGroup("grp1", "Casal", "#f43f5e")
grpAmigos == GuestGroup("grp2", "Amigos", "#0ea5e9")
expInit == ExpenseItem("e1", "Decoracao", 0, "true")
expInitPaid == ExpenseItem("e1", "Decoracao", 500, "true")
expNova == ExpenseItem("e2", "Nova Despesa", 0, "true")
gAna == Guest("g1", "Ana", "grp1", FALSE, Undefined, Undefined, GuestKeys)
gAnaRenamed == Guest("g1", "Ana Maria", "grp1", FALSE, Undefined, Undefined, GuestKeys)
gAnaReordered == Guest("g1", "Ana", "grp1", FALSE, Undefined, Undefined, GuestKeysAlt)
gBia == Guest("g2", "Bia", "grp1", FALSE, "g1", Undefined, GuestKeys)

(* crypto.randomUUID(): the n-th id drawn for a purpose in the call-th     *)
(* onload of an import file, or, for call 0 and below, while the modules   *)
(* are loaded; all distinct, and none is an id the server has given.       *)
randomUUID(call, purpose, n) ==
    purpose \o "-" \o ToString(n) \o "/" \o ToString(call)

(* INITIAL_CATEGORIES, the accents of the names left out. *)
INITIAL_CATEGORIES ==
    << "Asses./Cerimonial", "Recepcionistas", "Local da Cerimonia",
       "Local Recepcao", "Gerador", "Seguranca/Limpeza", "Decoracao",
       "Fotografo", "Video", "Gastronomia", "Garcons/Metria", "Chopp/Bebidas",
       "Bar de Drinks", "Bolo", "Doces", "Forminhas", "Papelaria",
       "Vestido da Noiva", "Acessorios Noiva", "Dia da Noiva",
       "Traje do Noivo", "Musicos Cerimonia", "Banda/DJ Festa",
       "Iluminacao Cenica", "Lembrancinhas", "Lua de Mel",
       "Noite de Nupcias" >>

(* generateInitialExpenses(): one expense for each category. *)
generateInitialExpenses(call) ==
    [i \in DOMAIN INITIAL_CATEGORIES |->
        ExpenseItem(randomUUID(call, "expense", i), INITIAL_CATEGORIES[i], 0,
                    "true")]

(* generateInitialGroups() *)
generateInitialGroups(call) ==
    <<GuestGroup(randomUUID(call, "group", 1), "Casal", "#f43f5e"),
      GuestGroup(randomUUID(call, "group", 2), "Familia Noiva", "#d946ef"),
      GuestGroup(randomUUID(call, "group", 3), "Familia Noivo", "#8b5cf6"),
      GuestGroup(randomUUID(call, "group", 4), "Amigos", "#0ea5e9"),
      GuestGroup(randomUUID(call, "group", 5), "Trabalho", "#10b981")>>

(* INITIAL_GROUPS = generateInitialGroups(), a call of its own. *)
INITIAL_GROUPS == generateInitialGroups(-1)

(* generateInitialState() *)
generateInitialState(call) ==
    AppState(InitialBudget, generateInitialExpenses(call), <<>>,
             generateInitialGroups(call))

(* INITIAL_STATE = generateInitialState(), drawn once when the module is   *)
(* loaded.                                                                 *)
INITIAL_STATE == generateInitialState(0)

(* The event as the server returns it. *)
ServerState == AppState(0, <<expInit>>, <<gAna>>, <<grpCasal>>)

----------------------------------------------------------------------------
(* Sequence helpers (Array.prototype.map / filter, Set, Map).              *)

Ids(entities) == [i \in 1..Len(entities) |-> entities[i].id]

RECURSIVE FilterOut(_, _)
(* entities.filter(e => e.id !== id) *)
FilterOut(entities, id) ==
    IF entities = <<>> THEN <<>>
    ELSE IF Head(entities).id # id
         THEN <<Head(entities)>> \o FilterOut(Tail(entities), id)
         ELSE FilterOut(Tail(entities), id)

(* entities.map(e => e.id === payload.id ? payload : e) *)
ReplaceById_Appends(entities, payload) == Append(entities, payload)

ReplaceById(entities, payload) ==
    [i \in 1..Len(entities) |->
        IF entities[i].id = payload.id THEN payload ELSE entities[i]]

(* guests.map(g => g.id === id ? {...g, confirmed: !g.confirmed} : g) *)
ToggleById(guests, id) ==
    [i \in 1..Len(guests) |->
        IF guests[i].id = id
        THEN [guests[i] EXCEPT !.confirmed = ~guests[i].confirmed]
        ELSE guests[i]]

RECURSIVE NewSet(_)
(* new Set(ids): the distinct ids in order of first insertion *)
NewSet(ids) ==
    IF ids = <<>> THEN <<>>
    ELSE LET init == NewSet(SubSeq(ids, 1, Len(ids) - 1))
             last == ids[Len(ids)]
         IN IF \E i \in 1..Len(init) : init[i] = last THEN init
            ELSE Append(init, last)

SetHas(set, id) == \E i \in 1..Len(set) : set[i] = id

(* new Map(entities.map(e => [e.id, e])): has / get; a later entry with   *)
(* the same id overwrites an earlier one.                                  *)
MapHas(entities, id) == \E i \in 1..Len(entities) : entities[i].id = id

MapGet(entities, id) ==
    LET last == CHOOSE i \in 1..Len(entities) :
                    /\ entities[i].id = id
                    /\ \A j \in (i + 1)..Len(entities) : entities[j].id # id
    IN entities[last]

----------------------------------------------------------------------------
(* JSON.stringify of an entity: the key/value pairs in key insertion       *)
(* order; a key whose value is undefined is left out.                      *)

IsUndefined(e, k) == k \in {"parentId", "isRoot"} /\ e[k] = Undefined

ValueText(e, k) ==
    IF k = "confirmed" THEN (IF e[k] THEN "true" ELSE "false") ELSE e[k]

RECURSIVE StringifyKeys(_, _)
StringifyKeys(e, keys) ==
    IF keys = <<>> THEN <<>>
    ELSE IF IsUndefined(e, Head(keys))
         THEN StringifyKeys(e, Tail(keys))
         ELSE <<<<Head(keys), ValueText(e, Head(keys))>>>>
                  \o StringifyKeys(e, Tail(keys))

JSONstringify(e) == StringifyKeys(e, e.keys)

----------------------------------------------------------------------------
(* reducer(state, action).  The result carries `same`: whether the value   *)
(* returned is the very object `state` (JavaScript ===), which only        *)
(* SET_STATE with the present object as payload produces; every other case *)
(* builds a new object with a spread.                                      *)

Fresh(st) == [st |-> st, same |-> FALSE]

RECURSIVE FilterOutGroup(_, _)
FilterOutGroup(guests, id) ==
    IF guests = <<>> THEN <<>>
    ELSE IF Head(guests).groupId # id
         THEN <<Head(guests)>> \o FilterOutGroup(Tail(guests), id)
         ELSE FilterOutGroup(Tail(guests), id)

(* case 'DELETE_GUEST' *)
deleteGuest_ClearsParent(state, id) ==
    [state EXCEPT !.guests =
        [i \in DOMAIN FilterOut(@, id) |->
            IF FilterOut(@, id)[i].parentId = id
            THEN [FilterOut(@, id)[i] EXCEPT !.parentId = Undefined]
            ELSE FilterOut(@, id)[i]]]

deleteGuest(state, id) ==
    [state EXCEPT !.guests = FilterOut(@, id)]

(* case 'DELETE_GUEST_GROUP' *)
deleteGuestGroup_Cascades(state, id) ==
    [state EXCEPT !.guestGroups = FilterOut(@, id),
                  !.guests = FilterOutGroup(@, id)]

deleteGuestGroup(state, id) ==
    [state EXCEPT !.guestGroups = FilterOut(@, id)]

reducer(state, action) ==
    CASE action.type = "SET_STATE" ->
            IF action.ref = "present" THEN [st |-> state, same |-> TRUE]
            ELSE Fresh(action.payload)
      [] action.type = "UPDATE_BUDGET_TOTAL" ->
            Fresh([state EXCEPT !.budgetTotal = action.payload])
      [] action.type = "ADD_EXPENSE" ->
            Fresh([state EXCEPT !.expenses = Append(@, action.payload)])
      [] action.type = "UPDATE_EXPENSE" ->
            Fresh([state EXCEPT !.expenses = ReplaceById(@, action.payload)])
      [] action.type = "DELETE_EXPENSE" ->
            Fresh([state EXCEPT !.expenses = FilterOut(@, action.payload)])
      [] action.type = "ADD_GUEST" ->
            Fresh([state EXCEPT !.guests = Append(@, action.payload)])
      [] action.type = "UPDATE_GUEST" ->
            Fresh([state EXCEPT !.guests = ReplaceById(@, action.payload)])
      [] action.type = "BULK_ADD_GUESTS" ->
            Fresh([state EXCEPT !.guests = @ \o action.payload])
      [] action.type = "DELETE_GUEST" ->
            Fresh(deleteGuest(state, action.payload))
      [] action.type = "TOGGLE_GUEST_CONFIRM" ->
            Fresh([state EXCEPT !.guests = ToggleById(@, action.payload)])
      [] action.type = "ADD_GUEST_GROUP" ->
            Fresh([state EXCEPT !.guestGroups = Append(@, action.payload)])
      [] action.type = "DELETE_GUEST_GROUP" ->
            Fresh(deleteGuestGroup(state, action.payload))
      [] OTHER -> [st |-> state, same |-> TRUE]

(* The actions execute() is given. *)
Act(type, payload) == [type |-> type, payload |-> payload, ref |-> "fresh"]

ActionPool ==
    << [type |-> "SET_STATE", payload |-> Undefined, ref |-> "present"],
       Act("SET_STATE", ServerState),
       Act("UPDATE_BUDGET_TOTAL", 0),
       Act("ADD_EXPENSE", expNova),
       Act("UPDATE_EXPENSE", expInitPaid),
       Act("DELETE_EXPENSE", "e1"),
       Act("ADD_GUEST", gBia),
       Act("UPDATE_GUEST", gAnaRenamed),
       Act("UPDATE_GUEST", gAnaReordered),
       Act("BULK_ADD_GUESTS", <<gAna, gBia>>),
       Act("DELETE_GUEST", "g1"),
       Act("TOGGLE_GUEST_CONFIRM", "g2"),
       Act("ADD_GUEST_GROUP", grpAmigos),
       Act("DELETE_GUEST_GROUP", "grp1") >>

(* The events as the server returns them, and the edits made on the page. *)
LoadStatePool == <<ServerState>>

PageActionPool ==
    << Act("UPDATE_BUDGET_TOTAL", InitialBudget),
       Act("UPDATE_EXPENSE", expInitPaid),
       Act("ADD_GUEST", gBia),
       Act("UPDATE_GUEST", gAnaRenamed),
       Act("DELETE_GUEST", "g1"),
       Act("ADD_GUEST_GROUP", grpAmigos) >>

----------------------------------------------------------------------------
(* The history reducer of useUndoRedo: (currentState, action) -> state.    *)

History(p, c, f) == [past |-> p, present |-> c, future |-> f]

(* case 'UNDO' *)
undoCase_AppendsToFuture(currentState) ==
    LET p == currentState.past
    IN IF Len(p) = 0 THEN currentState
       ELSE History(SubSeq(p, 1, Len(p) - 1), p[Len(p)],
                    Append(currentState.future, currentState.present))

undoCase(currentState) ==
    LET p == currentState.past
    IN IF Len(p) = 0 THEN currentState
       ELSE History(SubSeq(p, 1, Len(p) - 1), p[Len(p)],
                    <<currentState.present>> \o currentState.future)

(* case 'REDO' *)
redoCase_TakesLast(currentState) ==
    LET f == currentState.future
    IN IF Len(f) = 0 THEN currentState
       ELSE History(Append(currentState.past, currentState.present),
                    f[Len(f)], SubSeq(f, 1, Len(f) - 1))

redoCase(currentState) ==
    LET f == currentState.future
    IN IF Len(f) = 0 THEN currentState
       ELSE History(Append(currentState.past, currentState.present),
                    f[1], SubSeq(f, 2, Len(f)))

(* case 'ACTION' *)
actionCase_KeepsFuture(currentState, action) ==
    LET newPresent == reducer(currentState.present, action)
    IN IF newPresent.same THEN currentState
       ELSE History(Append(currentState.past, currentState.present),
                    newPresent.st, currentState.future)

actionCase(currentState, action) ==
    LET newPresent == reducer(currentState.present, action)
    IN IF newPresent.same THEN currentState
       ELSE History(Append(currentState.past, currentState.present),
                    newPresent.st, <<>>)

(* case 'LOAD' *)
loadCase_KeepsPast(state) == History(past, state, <<>>)

loadCase(state) == History(<<>>, state, <<>>)

historyReducer(currentState, action) ==
    CASE action.type = "UNDO" -> undoCase(currentState)
      [] action.type = "REDO" -> redoCase(currentState)
      [] action.type = "ACTION" -> actionCase(currentState, action.action)
      [] action.type = "LOAD" -> loadCase(action.state)
      [] OTHER -> currentState

history == History(past, present, future)

(* dispatch(action): the reducer's result becomes the hook's state. *)
dispatch(action) ==
    LET h == historyReducer(history, action)
    IN /\ past' = h.past
       /\ present' = h.present
       /\ future' = h.future

canUndo == Len(past) > 0
canRedo == Len(future) > 0

----------------------------------------------------------------------------
(* The delta engine.                                                       *)

IdSets(state) ==
    [guests |-> NewSet(Ids(state.guests)),
     guestGroups |-> NewSet(Ids(state.guestGroups)),
     expenses |-> NewSet(Ids(state.expenses))]

EmptyIdSets == [guests |-> <<>>, guestGroups |-> <<>>, expenses |-> <<>>]

EmptyCollectionDelta == [created |-> <<>>, updated |-> <<>>, deleted |-> <<>>]

(* createEmptyDelta(); budgetTotal is <<>> for undefined, <<v>> for v. *)
createEmptyDelta ==
    [budgetTotal |-> <<>>, guests |-> EmptyCollectionDelta,
     guestGroups |-> EmptyCollectionDelta, expenses |-> EmptyCollectionDelta]

RECURSIVE CurrentLoop(_, _, _, _)
(* for (const e of current) { created.push / updated.push } *)
CurrentLoop(current, baseEntities, baseIds, acc) ==
    IF current = <<>> THEN acc
    ELSE LET e == Head(current)
             next ==
               IF ~SetHas(baseIds, e.id)
               THEN [acc EXCEPT !.created = Append(@, e)]
               ELSE IF /\ MapHas(baseEntities, e.id)
                       /\ JSONstringify(e) # JSONstringify(MapGet(baseEntities, e.id))
                    THEN [acc EXCEPT !.updated = Append(@, e)]
                    ELSE acc
         IN CurrentLoop(Tail(current), baseEntities, baseIds, next)

DeletedLoop_None(baseIds, currentIds, acc) == acc

RECURSIVE DeletedLoop(_, _, _)
(* for (const id of baselineIds) if (!currentIds.has(id)) deleted.push(id) *)
DeletedLoop(baseIds, currentIds, acc) ==
    IF baseIds = <<>> THEN acc
    ELSE DeletedLoop(Tail(baseIds), currentIds,
                     IF ~SetHas(currentIds, Head(baseIds))
                     THEN [acc EXCEPT !.deleted = Append(@, Head(baseIds))]
                     ELSE acc)

CollectionDelta_IdsFromBaseline(current, baseEntities, baseIds) ==
    LET ids == NewSet(Ids(baseEntities))
    IN DeletedLoop(ids, NewSet(Ids(current)),
                   CurrentLoop(current, baseEntities, ids, EmptyCollectionDelta))

CollectionDelta(current, baseEntities, baseIds) ==
    DeletedLoop(baseIds, NewSet(Ids(current)),
                CurrentLoop(current, baseEntities, baseIds, EmptyCollectionDelta))

(* getDeltas() of a render whose history.present is `current`. *)
getDeltas(current, base, baseIds) ==
    [budgetTotal |-> IF current.budgetTotal # base.budgetTotal
                     THEN <<current.budgetTotal>> ELSE <<>>,
     guests |-> CollectionDelta(current.guests, base.guests, baseIds.guests),
     guestGroups |-> CollectionDelta(current.guestGroups, base.guestGroups,
                                     baseIds.guestGroups),
     expenses |-> CollectionDelta(current.expenses, base.expenses,
                                  baseIds.expenses)]

CollectionChanged(d) ==
    Len(d.created) > 0 \/ Len(d.updated) > 0 \/ Len(d.deleted) > 0

(* hasPendingChanges() of a render whose history.present is `current`. *)
hasPendingChanges_TruthyBudget(current, base, baseIds) ==
    LET delta == getDeltas(current, base, baseIds)
    IN \/ (delta.budgetTotal # <<>> /\ delta.budgetTotal[1] # 0)
       \/ CollectionChanged(delta.guests)
       \/ CollectionChanged(delta.guestGroups)
       \/ CollectionChanged(delta.expenses)

hasPendingChanges(current, base, baseIds) ==
    LET delta == getDeltas(current, base, baseIds)
    IN \/ delta.budgetTotal # <<>>
       \/ CollectionChanged(delta.guests)
       \/ CollectionChanged(delta.guestGroups)
       \/ CollectionChanged(delta.expenses)

(* markAsSynced() of a render whose history.present is `current`. *)
markAsSynced(current) ==
    /\ baseline' = current
    /\ baselineIds' = IdSets(current)

----------------------------------------------------------------------------
(* Observers.  lastOp names the operation of the last step with its        *)
(* argument; run follows a sequence execute^n undo^k redo^k.               *)

NoAction == [type |-> "NONE", payload |-> Undefined, ref |-> "fresh"]

(* The hook's state as an operation finds it. *)
Before ==
    [past |-> past, present |-> present, future |-> future,
     baseline |-> baseline, baselineIds |-> baselineIds]

Op(name, action, state) ==
    [op |-> name, action |-> action, state |-> state, edited |-> FALSE,
     before |-> Before]

InitBefore ==
    [past |-> <<>>, present |-> INITIAL_STATE, future |-> <<>>,
     baseline |-> INITIAL_STATE, baselineIds |-> EmptyIdSets]

(* On the page: the handler, the state it was given (the loaded state, the *)
(* snapshot of a settled write) and whether the state was edited while    *)
(* that write was in flight.                                              *)
PageOp(name, state, edited) ==
    [op |-> name, action |-> NoAction, state |-> state, edited |-> edited,
     before |-> InitBefore]

IdleRun ==
    [phase |-> "idle", n |-> 0, k |-> 0, s0 |-> INITIAL_STATE,
     sN |-> INITIAL_STATE, pushed |-> TRUE]

(* run after execute(): h is the history before, h2 the history after. *)
RunExecute(h, h2) ==
    LET framePushed == Len(h2.past) = Len(h.past) + 1
    IN IF run.phase = "exec"
       THEN [run EXCEPT !.n = @ + 1, !.sN = h2.present,
                        !.pushed = @ /\ framePushed]
       ELSE IF h.future = <<>>
            THEN [phase |-> "exec", n |-> 1, k |-> 0, s0 |-> h.present,
                  sN |-> h2.present, pushed |-> framePushed]
            ELSE IdleRun

RunUndo ==
    IF run.phase \in {"exec", "undo"} /\ run.k < run.n
    THEN [run EXCEPT !.phase = "undo", !.k = @ + 1]
    ELSE IdleRun

RunRedo ==
    IF run.phase = "undo" /\ run.k = run.n
    THEN [run EXCEPT !.phase = "redo", !.k = 1]
    ELSE IF run.phase = "redo" /\ run.k < run.n
         THEN [run EXCEPT !.k = @ + 1]
         ELSE IdleRun

(* A markAsSynced() call: who made it, whether the write it follows had  *)
(* settled, and whether the baseline advanced to the state that write     *)
(* carried.                                                               *)
Sync(by, settled, advancedTo, carried) ==
    [by |-> by, settled |-> settled, sameState |-> advancedTo = carried]

NoSync == [by |-> "none", settled |-> TRUE, sameState |-> TRUE]

----------------------------------------------------------------------------
(* The operations of the hook.                                             *)

(* execute(action) *)
execute_MarksSynced(action) ==
    /\ dispatch([type |-> "ACTION", action |-> action])
    /\ markAsSynced(present)

execute(action) ==
    /\ dispatch([type |-> "ACTION", action |-> action])
    /\ UNCHANGED baseVars

(* undo() *)
undo ==
    /\ dispatch([type |-> "UNDO"])
    /\ UNCHANGED baseVars

(* redo() *)
redo ==
    /\ dispatch([type |-> "REDO"])
    /\ UNCHANGED baseVars

(* loadState(state) *)
loadState(state) ==
    /\ baseline' = state
    /\ baselineIds' = IdSets(state)
    /\ dispatch([type |-> "LOAD", state |-> state])

(* The state after useUndoRedo(INITIAL_STATE) and the first render. *)
InitHook ==
    /\ past = <<>>
    /\ present = INITIAL_STATE
    /\ future = <<>>
    /\ baseline = INITIAL_STATE
    /\ baselineIds = EmptyIdSets
    /\ dataLoaded = FALSE
    /\ hasUnsaved = FALSE
    /\ timer = <<>>
    /\ inflight = {}
    /\ saving = FALSE
    /\ reader = <<>>
    /\ rendered = <<>>
    /\ lastSync = NoSync
    /\ lastOp = PageOp("init", INITIAL_STATE, FALSE)
    /\ run = IdleRun
    /\ nExec = 0
    /\ nOps = 0
    /\ nImports = 0

NoCall ==
    /\ arg = <<>>
    /\ result = <<>>

Init == InitHook /\ NoCall

----------------------------------------------------------------------------
(* The history store alone: execute, undo and redo from the initial state. *)

Execute(action) ==
    /\ nExec < MaxExec
    /\ nExec' = nExec + 1
    /\ execute(action)
    /\ lastOp' = Op("execute", action, present)
    /\ run' = RunExecute(history,
                 historyReducer(history, [type |-> "ACTION", action |-> action]))
    /\ UNCHANGED <<pageVars, callVars, nOps, nImports>>

Undo ==
    /\ undo
    /\ lastOp' = Op("undo", NoAction, present)
    /\ run' = RunUndo
    /\ UNCHANGED <<pageVars, callVars, cntVars>>

Redo ==
    /\ redo
    /\ lastOp' = Op("redo", NoAction, present)
    /\ run' = RunRedo
    /\ UNCHANGED <<pageVars, callVars, cntVars>>

Next ==
    \/ \E i \in 1..Len(ActionPool) : Execute(ActionPool[i])
    \/ Undo
    \/ Redo

Spec == Init /\ [][Next]_vars

----------------------------------------------------------------------------
(* Export and import of the portable file (EventPage.handleExport and the  *)
(* onload callback of handleImport).  A plain object used as a dictionary  *)
(* is a sequence of [key, value] entries in insertion order; a lookup that *)
(* finds no own entry falls through to the prototype chain.  An assignment *)
(* to the key __proto__ creates no own entry: with an object as value it   *)
(* replaces the prototype, which is kept as an entry under that key and is *)
(* no own property; with any other value it does nothing.                  *)

MaxFileGuests == 2     \* guests in an import file
MaxIndexKey == 12      \* the largest integer-like key told from other keys

ProtoKey == "__proto__"

(* Object.getOwnPropertyNames(Object.prototype) *)
ObjectPrototypeKeys ==
    {"constructor", "__defineGetter__", "__defineSetter__", "hasOwnProperty",
     "__lookupGetter__", "__lookupSetter__", "isPrototypeOf",
     "propertyIsEnumerable", "toString", "valueOf", "__proto__",
     "toLocaleString"}

(* What obj[key] yields for a method of Object.prototype: a function. *)
NativeFunction == "function () { [native code] }"

(* What obj.__proto__ yields for a plain object: Object.prototype. *)
ObjectPrototype == "[object Object]"

(* The keys of a group record, found through a replaced prototype. *)
GroupFields == {"id", "name", "color"}

HasOwn(obj, key) ==
    key # ProtoKey /\ \E i \in DOMAIN obj : obj[i].key = key

HasProto(obj) == \E i \in DOMAIN obj : obj[i].key = ProtoKey

ProtoOf(obj) == obj[CHOOSE i \in DOMAIN obj : obj[i].key = ProtoKey].value

(* Object.keys(obj).length *)
OwnCount(obj) == Cardinality({i \in DOMAIN obj : obj[i].key # ProtoKey})

(* obj[key] *)
ObjGet(obj, key) ==
    IF HasOwn(obj, key)
    THEN obj[CHOOSE i \in DOMAIN obj : obj[i].key = key].value
    ELSE IF key = ProtoKey
         THEN (IF HasProto(obj) THEN ProtoOf(obj) ELSE ObjectPrototype)
    ELSE IF HasProto(obj) /\ key \in GroupFields THEN ProtoOf(obj)[key]
    ELSE IF key \in ObjectPrototypeKeys THEN NativeFunction
    ELSE Undefined

(* !!obj[key] *)
ObjTruthy(obj, key) ==
    \/ HasOwn(obj, key)
    \/ key \in ObjectPrototypeKeys
    \/ HasProto(obj) /\ key \in GroupFields

Replaced(obj, key, value) ==
    [i \in DOMAIN obj |->
        IF obj[i].key = key THEN [key |-> key, value |-> value] ELSE obj[i]]

(* obj[key] = value, for a value that is no object (a string, undefined) *)
ObjSet(obj, key, value) ==
    IF key = ProtoKey THEN obj
    ELSE IF HasOwn(obj, key) THEN Replaced(obj, key, value)
    ELSE Append(obj, [key |-> key, value |-> value])

(* obj[key] = value, for a value that is an object *)
ObjSetObject(obj, key, value) ==
    IF (key = ProtoKey /\ HasProto(obj)) \/ HasOwn(obj, key)
    THEN Replaced(obj, key, value)
    ELSE Append(obj, [key |-> key, value |-> value])

(* Integer-like keys ("0", "1", ...) are enumerated first, in ascending    *)
(* numeric order, then the other keys in insertion order.                  *)
IsIndexKey(key) == \E n \in 0..MaxIndexKey : ToString(n) = key

RECURSIVE IndexValues(_, _)
IndexValues(obj, n) ==
    IF n > MaxIndexKey THEN <<>>
    ELSE (IF HasOwn(obj, ToString(n)) THEN <<ObjGet(obj, ToString(n))>>
          ELSE <<>>) \o IndexValues(obj, n + 1)

RECURSIVE NamedValues(_)
NamedValues(obj) ==
    IF obj = <<>> THEN <<>>
    ELSE (IF Head(obj).key = ProtoKey \/ IsIndexKey(Head(obj).key) THEN <<>>
          ELSE <<Head(obj).value>>) \o NamedValues(Tail(obj))

(* Object.values(obj) *)
ObjectValues(obj) == IndexValues(obj, 0) \o NamedValues(obj)

(* A guest, a group and an expense as the file has them.  A number that    *)
(* the file may lack is <<>> when absent, <<v>> for v.                     *)
FileGuest(id, name, group, groupName, parentId, parentName) ==
    [id |-> id, name |-> name, group |-> group, groupName |-> groupName,
     confirmed |-> FALSE, parentId |-> parentId, parentName |-> parentName]

FileGroup(name, color) == [name |-> name, color |-> color]

FileExpense(category, estimatedValue, include) ==
    [category |-> category, estimatedValue |-> estimatedValue,
     include |-> include]

(* budgetTotal is <<>> when the file has none, <<v>> for v; guestGroups is *)
(* <<>> when the file has none; expenses is <<>> when the file has none,   *)
(* <<list>> for a list; isArray: Array.isArray(json.guests).               *)
File(budgetTotal, guestGroups, guests, expenses, exportedAt, isArray) ==
    [budgetTotal |-> budgetTotal, guestGroups |-> guestGroups,
     guests |-> guests, expenses |-> expenses, exportedAt |-> exportedAt,
     isArray |-> isArray]

(* new Date().toISOString() *)
Now == "2026-01-01T00:00:00.000Z"

(* handleExport: groups and parents by name, no ids. *)
handleExport(state) ==
    File(<<state.budgetTotal>>,
         [i \in DOMAIN state.guestGroups |->
            FileGroup(state.guestGroups[i].name, state.guestGroups[i].color)],
         [i \in DOMAIN state.guests |->
            LET g == state.guests[i]
                groups == SelectSeq(state.guestGroups,
                                    LAMBDA gr : gr.id = g.groupId)
                parents == IF Falsy(g.parentId) THEN <<>>
                           ELSE SelectSeq(state.guests,
                                          LAMBDA p : p.id = g.parentId)
            IN [id |-> Undefined, name |-> g.name, group |-> Undefined,
                groupName |-> IF groups = <<>> \/ Falsy(groups[1].name) THEN ""
                             ELSE groups[1].name,
                confirmed |-> g.confirmed, parentId |-> Undefined,
                parentName |-> IF parents = <<>> \/ Falsy(parents[1].name)
                               THEN Undefined ELSE parents[1].name]],
         <<[i \in DOMAIN state.expenses |->
              FileExpense(state.expenses[i].category,
                          <<state.expenses[i].estimatedValue>>,
                          state.expenses[i].include)]>>,
         Now, TRUE)

DefaultColors ==
    <<"#f43f5e", "#d946ef", "#8b5cf6", "#0ea5e9", "#10b981", "#f59e0b",
      "#ef4444">>

(* g.group || g.groupName *)
GroupNameOf(g) == IF ~Falsy(g.group) THEN g.group ELSE g.groupName

RECURSIVE TruthyNames(_)
TruthyNames(guests) ==
    IF guests = <<>> THEN <<>>
    ELSE (IF Falsy(GroupNameOf(Head(guests))) THEN <<>>
          ELSE <<GroupNameOf(Head(guests))>>) \o TruthyNames(Tail(guests))

groupNamesOf(json) ==
    NewSet([i \in DOMAIN json.guestGroups |-> json.guestGroups[i].name]
           \o TruthyNames(json.guests))

(* groupByName[name] is truthy *)
GroupKnown(groupByName, name) == ObjTruthy(groupByName, name)

defaultColor(colorIdx) == DefaultColors[(colorIdx % Len(DefaultColors)) + 1]

RECURSIVE providedGroups(_, _, _, _)
(* json.guestGroups.forEach(g => groupByName[g.name] = {id, name, color}) *)
providedGroups(call, groups, i, acc) ==
    IF i > Len(groups) THEN acc
    ELSE LET g == groups[i]
             useDefault == Falsy(g.color)
             color == IF useDefault THEN defaultColor(acc.colorIdx) ELSE g.color
         IN providedGroups(call, groups, i + 1,
              [obj |-> ObjSetObject(acc.obj, g.name,
                              GuestGroup(randomUUID(call, "group", i), g.name, color)),
               colorIdx |-> IF useDefault THEN acc.colorIdx + 1
                            ELSE acc.colorIdx])

RECURSIVE referencedGroups(_, _, _, _)
(* groupNames.forEach(name => { if (!groupByName[name]) ... }) *)
referencedGroups(call, names, i, acc) ==
    IF i > Len(names) THEN acc
    ELSE referencedGroups(call, names, i + 1,
           IF GroupKnown(acc.obj, names[i]) THEN acc
           ELSE [obj |-> ObjSetObject(acc.obj, names[i],
                                GuestGroup(randomUUID(call, "named", i), names[i],
                                           defaultColor(acc.colorIdx))),
                 colorIdx |-> acc.colorIdx + 1])

RECURSIVE initialGroups(_, _, _)
(* INITIAL_GROUPS.forEach(g => groupByName[g.name] = {...}) *)
initialGroups(call, i, obj) ==
    IF i > Len(INITIAL_GROUPS) THEN obj
    ELSE initialGroups(call, i + 1,
           ObjSetObject(obj, INITIAL_GROUPS[i].name,
                  GuestGroup(randomUUID(call, "initial", i), INITIAL_GROUPS[i].name,
                             INITIAL_GROUPS[i].color)))

groupByNameOf(call, json) ==
    LET named == referencedGroups(call, groupNamesOf(json), 1,
                   providedGroups(call, json.guestGroups, 1,
                                  [obj |-> <<>>, colorIdx |-> 0])).obj
    IN IF OwnCount(named) = 0 THEN initialGroups(call, 1, named) ELSE named

RECURSIVE oldIdToNewIdOf(_, _, _, _)
(* oldIdToNewId[g.id || crypto.randomUUID()] = crypto.randomUUID() *)
oldIdToNewIdOf(call, guests, i, obj) ==
    IF i > Len(guests) THEN obj
    ELSE oldIdToNewIdOf(call, guests, i + 1,
           ObjSet(obj,
                  IF Falsy(guests[i].id) THEN randomUUID(call, "old", i)
                  ELSE guests[i].id,
                  randomUUID(call, "guest", i)))

RECURSIVE nameToNewIdOf(_, _, _, _, _)
(* nameToNewId[g.name] = oldIdToNewId[g.id || crypto.randomUUID()] *)
nameToNewIdOf(call, guests, i, oldIdToNewId, obj) ==
    IF i > Len(guests) THEN obj
    ELSE nameToNewIdOf(call, guests, i + 1, oldIdToNewId,
           ObjSet(obj, guests[i].name,
                  ObjGet(oldIdToNewId,
                         IF Falsy(guests[i].id) THEN randomUUID(call, "other", i)
                         ELSE guests[i].id)))

(* Resolve parentId: the old parentId first, then parentName. *)
resolvedParentId(g, oldIdToNewId, nameToNewId) ==
    IF ~Falsy(g.parentId) /\ ~Falsy(ObjGet(oldIdToNewId, g.parentId))
    THEN ObjGet(oldIdToNewId, g.parentId)
    ELSE IF ~Falsy(g.parentName) /\ ~Falsy(ObjGet(nameToNewId, g.parentName))
    THEN ObjGet(nameToNewId, g.parentName)
    ELSE Undefined

(* finalGroups[0]?.id *)
firstGroupId(finalGroups) ==
    IF finalGroups = <<>> THEN Undefined ELSE finalGroups[1].id

(* groupName ? (groupByName[groupName]?.id || finalGroups[0]?.id)          *)
(*           : finalGroups[0]?.id                                          *)
(* Of the values a lookup can find, only a group record has an id: an own  *)
(* entry, or the replaced prototype itself under the key __proto__.        *)
groupIdOf(g, groupByName) ==
    IF ~Falsy(GroupNameOf(g))
       /\ (HasOwn(groupByName, GroupNameOf(g))
           \/ (GroupNameOf(g) = ProtoKey /\ HasProto(groupByName)))
    THEN ObjGet(groupByName, GroupNameOf(g)).id
    ELSE firstGroupId(ObjectValues(groupByName))

newGuestsOf(call, json, groupByName) ==
    LET oldIdToNewId == oldIdToNewIdOf(call, json.guests, 1, <<>>)
        nameToNewId == nameToNewIdOf(call, json.guests, 1, oldIdToNewId, <<>>)
    IN [i \in DOMAIN json.guests |->
          LET g == json.guests[i]
              oldId == IF Falsy(g.id) THEN "" ELSE g.id
              newId == ObjGet(oldIdToNewId, oldId)
          IN Guest(IF Falsy(newId) THEN randomUUID(call, "fresh", i) ELSE newId,
                   g.name, groupIdOf(g, groupByName), g.confirmed,
                   resolvedParentId(g, oldIdToNewId, nameToNewId),
                   Undefined, GuestKeys)]

(* (json.expenses || generateInitialExpenses()).map(e => ({ id:            *)
(* crypto.randomUUID(), category: e.category || 'Sem categoria',           *)
(* estimatedValue: e.estimatedValue || 0, include: e.include !== false })) *)
newExpensesOf(call, json) ==
    LET generated == generateInitialExpenses(call)
        list == IF json.expenses = <<>>
                THEN [i \in DOMAIN generated |->
                        FileExpense(generated[i].category,
                                    <<generated[i].estimatedValue>>,
                                    generated[i].include)]
                ELSE json.expenses[1]
    IN [i \in DOMAIN list |->
          ExpenseItem(randomUUID(call, "mapped", i),
                      IF Falsy(list[i].category) THEN "Sem categoria"
                      ELSE list[i].category,
                      IF list[i].estimatedValue = <<>> THEN 0
                      ELSE list[i].estimatedValue[1],
                      IF list[i].include = "false" THEN "false" ELSE "true")]

(* The onload callback up to loadState: the state it loads, as <<state>>,  *)
(* or <<>> for "Formato de arquivo invalido".                              *)
importFile(call, json) ==
    IF json.budgetTotal # <<>> /\ json.isArray
    THEN LET groupByName == groupByNameOf(call, json)
         IN <<AppState(json.budgetTotal[1], newExpensesOf(call, json),
                       newGuestsOf(call, json, groupByName),
                       ObjectValues(groupByName))>>
    ELSE <<>>

(* The file chosen on the page, and the state its import loads in the      *)
(* call-th onload: Bia in the group Amigos, invited by Ana, who is not in  *)
(* the file.                                                               *)
PageImportFile ==
    File(<<InitialBudget>>, <<FileGroup("Amigos", "#0ea5e9")>>,
         <<FileGuest(Undefined, "Bia", Undefined, "Amigos", Undefined, "Ana")>>,
         <<<<FileExpense("Nova Despesa", <<0>>, "true")>>>>, Undefined, TRUE)

ImportedState(call) == importFile(call, PageImportFile)[1]

----------------------------------------------------------------------------
(* EventPage: the hook driven by the page's handlers and effects.  A step  *)
(* is one handler, callback or effect run to completion.  The handler of a *)
(* user event (a click, a change) is followed in the same step by the      *)
(* render it causes and that render's effects, which React flushes before  *)
(* the next event.  A timer callback, the continuation of an await, a      *)
(* FileReader callback or an effect only schedules the render: it happens  *)
(* in a later step, Rerender, and until then the handlers and the button   *)
(* states are those of the last render.  The effects of such a render run  *)
(* in a step of their own, RunEffect, after the page shows the new values  *)
(* and before the next render.                                             *)

MaxWrites == 2     \* writes in flight when the interval is left to fire

(* Observers kept in each write in flight: whether the state was edited   *)
(* (or replaced by a load) and whether the baseline was set by someone    *)
(* else since the write was issued.                                       *)
Edited(writes) == {[w EXCEPT !.edited = TRUE] : w \in writes}

Rebased(writes) == {[w EXCEPT !.rebased = TRUE] : w \in writes}

(* A number that tells a new write from those in flight. *)
FreeSeq ==
    CHOOSE n \in 1..(Cardinality(inflight) + 1) :
        \A w \in inflight : w.seq # n

(* The history.present that the markAsSynced of a suspended handleSave    *)
(* reads: the one of the render handleSave was taken from.                *)
closurePresent_Latest(w) == present

closurePresent(w) == w.snap

(* What the last render showed: state, saving, canUndo, canRedo and      *)
(* hasUnsavedChanges; whether a render is due; whether the auto-save      *)
(* effect of the last render has yet to run.                              *)
Shown ==
    IF rendered = <<>>
    THEN [state |-> present, saving |-> saving, canUndo |-> canUndo,
          canRedo |-> canRedo, hasUnsaved |-> hasUnsaved, render |-> FALSE,
          effect |-> FALSE]
    ELSE rendered[1]

(* The auto-save effect, deps [hasUnsavedChanges], of a render whose       *)
(* value is `unsaved` and whose state is `state`, after the effect last    *)
(* ran with `last`: when the value has changed, the interval is cleared    *)
(* and, if it is now true, set again with the handleSave of that render,   *)
(* whose closure holds that render's state.                                *)
autoSaveEffect(last, unsaved, state) ==
    [hasUnsaved |-> unsaved,
     timer |-> IF unsaved = last.hasUnsaved THEN last.timer
               ELSE IF unsaved THEN <<state>> ELSE <<>>]

(* hasUnsavedChanges and the interval once the effect that the last render *)
(* still owes, if any, has run.                                            *)
Flushed ==
    IF Shown.effect
    THEN autoSaveEffect([hasUnsaved |-> hasUnsaved, timer |-> timer],
                        Shown.hasUnsaved, Shown.state)
    ELSE [hasUnsaved |-> hasUnsaved, timer |-> timer]

(* The render a user event causes: the effect still owed runs first, then  *)
(* the render and its own effect, all before the next event.               *)
Render ==
    LET unsaved == dataLoaded' /\ hasPendingChanges(present', baseline', baselineIds')
        after == autoSaveEffect(Flushed, unsaved, present')
    IN /\ hasUnsaved' = after.hasUnsaved
       /\ timer' = after.timer
       /\ rendered' = <<>>

(* A render is scheduled; the page still shows the last render. *)
Defer ==
    /\ rendered' = <<[Shown EXCEPT !.render = TRUE]>>
    /\ UNCHANGED <<hasUnsaved, timer>>

(* The scheduled render: the effect still owed by the render before runs   *)
(* first; the page then shows the current values, and the effect of this   *)
(* render is owed when its hasUnsavedChanges differs from the one the      *)
(* effect last ran with.                                                   *)
Rerender ==
    LET unsaved == dataLoaded /\ hasPendingChanges(present, baseline, baselineIds)
    IN /\ rendered # <<>>
       /\ Shown.render
       /\ hasUnsaved' = Flushed.hasUnsaved
       /\ timer' = Flushed.timer
       /\ rendered' = IF unsaved = Flushed.hasUnsaved THEN <<>>
                      ELSE <<[state |-> present, saving |-> saving,
                              canUndo |-> canUndo, canRedo |-> canRedo,
                              hasUnsaved |-> unsaved, render |-> FALSE,
                              effect |-> TRUE]>>
       /\ lastOp' = [op |-> "render", action |-> NoAction, state |-> present,
                     edited |-> FALSE, before |-> InitBefore]
       /\ UNCHANGED <<histVars, baseVars, dataLoaded, inflight, saving, reader,
                      lastSync, run, callVars, cntVars>>

(* The auto-save effect of the last scheduled render, run after the page   *)
(* showed that render.                                                     *)
RunEffect ==
    /\ rendered # <<>>
    /\ Shown.effect
    /\ hasUnsaved' = Flushed.hasUnsaved
    /\ timer' = Flushed.timer
    /\ rendered' = IF Shown.render THEN <<[Shown EXCEPT !.effect = FALSE]>>
                   ELSE <<>>
    /\ lastOp' = [op |-> "effect", action |-> NoAction, state |-> present,
                  edited |-> FALSE, before |-> InitBefore]
    /\ UNCHANGED <<histVars, baseVars, dataLoaded, inflight, saving, reader,
                   lastSync, run, callVars, cntVars>>

(* useEffect: trpcEvent && !dataLoaded -> loadState(...); setDataLoaded(true) *)
DataArrives(state) ==
    /\ ~dataLoaded
    /\ loadState(state)
    /\ dataLoaded' = TRUE
    /\ lastOp' = Op("loadState", NoAction, state)
    /\ inflight' = Rebased(Edited(inflight))
    /\ UNCHANGED <<saving, reader, lastSync, run, callVars, cntVars>>
    /\ Defer

PageExecute(action) ==
    /\ nOps < MaxOps
    /\ nOps' = nOps + 1
    /\ execute(action)
    /\ lastOp' = PageOp("execute", INITIAL_STATE, FALSE)
    /\ inflight' = Edited(inflight)
    /\ UNCHANGED <<dataLoaded, saving, reader, lastSync, run, callVars, nExec,
                   nImports>>
    /\ Render

(* The undo button: disabled={!canUndo} *)
PageUndo ==
    /\ Shown.canUndo
    /\ undo
    /\ lastOp' = PageOp("undo", INITIAL_STATE, FALSE)
    /\ inflight' = Edited(inflight)
    /\ UNCHANGED <<dataLoaded, saving, reader, lastSync, run, callVars, cntVars>>
    /\ Render

(* The redo button: disabled={!canRedo} *)
PageRedo ==
    /\ Shown.canRedo
    /\ redo
    /\ lastOp' = PageOp("redo", INITIAL_STATE, FALSE)
    /\ inflight' = Edited(inflight)
    /\ UNCHANGED <<dataLoaded, saving, reader, lastSync, run, callVars, cntVars>>
    /\ Render

CollectionChanges(d) == Len(d.created) + Len(d.updated) + Len(d.deleted)

totalChanges_NineArrays(delta) ==
    CollectionChanges(delta.guests) + CollectionChanges(delta.guestGroups)
    + CollectionChanges(delta.expenses)

totalChanges(delta) ==
    (IF delta.budgetTotal # <<>> THEN 1 ELSE 0)
    + CollectionChanges(delta.guests)
    + CollectionChanges(delta.guestGroups)
    + CollectionChanges(delta.expenses)

totalItems(state) ==
    Len(state.guests) + Len(state.guestGroups) + Len(state.expenses)

(* totalChanges < totalItems * 0.5 *)
useDeltaSync_AtMostHalf(delta, state) ==
    2 * totalChanges(delta) <= totalItems(state)

useDeltaSync(delta, state) == 2 * totalChanges(delta) < totalItems(state)

(* The write handleSave awaits: syncDelta, syncEventData or none. *)
transfer(delta, state) ==
    IF useDeltaSync(delta, state) /\ totalChanges(delta) > 0 THEN "delta"
    ELSE IF totalChanges(delta) > 0 THEN "full"
    ELSE "none"

(* handleSave() of a render whose state is `state`, up to its await: with  *)
(* changes it issues one write and suspends; with none it runs through     *)
(* markAsSynced() at once.                                                 *)
handleSave(state) ==
    LET delta == getDeltas(state, baseline, baselineIds)
        write == [seq |-> FreeSeq,
                  kind |-> transfer(delta, state),
                  awaited |-> TRUE, snap |-> state, delta |-> delta,
                  edited |-> state # present, rebased |-> FALSE]
    IN /\ IF totalChanges(delta) > 0
          THEN /\ inflight' = inflight \cup {write}
               /\ saving' = TRUE
               /\ lastOp' = PageOp("saveStart", state, FALSE)
               /\ UNCHANGED <<baseVars, lastSync>>
          ELSE /\ markAsSynced(state)
               /\ saving' = FALSE
               /\ lastSync' = Sync("saveNoChange", TRUE, state, state)
               /\ lastOp' = PageOp("saveNoChange", state, state # present)
               /\ inflight' = Rebased(inflight)
       /\ UNCHANGED <<histVars, dataLoaded, reader, run, callVars, nExec,
                    nImports>>

(* The save button: disabled={saving || !hasUnsavedChanges}, onClick the   *)
(* handleSave of the last render.                                          *)
ClickSave ==
    /\ ~Shown.saving
    /\ Shown.hasUnsaved
    /\ nOps < MaxOps
    /\ nOps' = nOps + 1
    /\ handleSave(Shown.state)
    /\ Render

(* The interval callback: if (hasUnsavedChanges) handleSave(), both from   *)
(* the render in which the effect last ran.                                *)
AutoSaveTick ==
    /\ timer # <<>>
    /\ nOps < MaxOps
    /\ nOps' = nOps + 1
    /\ handleSave(timer[1])
    /\ Defer

(* The awaited mutateAsync resolves: markAsSynced() of the render          *)
(* handleSave was taken from, setLastSaved, and finally setSaving(false).  *)
SaveSucceeds(w) ==
    /\ w \in inflight
    /\ w.awaited
    /\ inflight' = Rebased(inflight \ {w})
    /\ markAsSynced(closurePresent(w))
    /\ saving' = FALSE
    /\ lastSync' = Sync("save", w \notin inflight', baseline', w.snap)
    /\ lastOp' = PageOp("saveSucceeds", w.snap, w.edited)
    /\ UNCHANGED <<histVars, dataLoaded, reader, run, callVars, cntVars>>
    /\ Defer

(* The awaited mutateAsync rejects: catch, and finally setSaving(false). *)
SaveFails(w) ==
    /\ w \in inflight
    /\ w.awaited
    /\ inflight' = inflight \ {w}
    /\ saving' = FALSE
    /\ lastOp' = PageOp("saveFails", w.snap, w.edited)
    /\ UNCHANGED <<histVars, baseVars, dataLoaded, reader, lastSync, run, callVars, cntVars>>
    /\ Defer

(* reader without its i-th entry *)
Without(seq, i) == SubSeq(seq, 1, i - 1) \o SubSeq(seq, i + 1, Len(seq))

(* handleImport: every change event with a file starts a new FileReader;   *)
(* its onload callback belongs to the render of the change event.          *)
ImportSelect ==
    /\ nOps < MaxOps
    /\ nOps' = nOps + 1
    /\ reader' = Append(reader, Shown.state)
    /\ lastOp' = PageOp("importSelect", INITIAL_STATE, FALSE)
    /\ UNCHANGED <<histVars, baseVars, dataLoaded, hasUnsaved, timer, rendered,
                   inflight, saving, lastSync, run, callVars, nExec,
                   nImports>>

(* reader.onload of the i-th reader with a valid file, whose ids are drawn  *)
(* in this call:                                                           *)
(* loadState(imported), then syncEventData.mutate(...) without await, then *)
(* markAsSynced() of the render of the change event.  loadState sets the   *)
(* baseline first; markAsSynced sets it again.                             *)
ImportLoad(i, imported) ==
    LET write == [seq |-> FreeSeq, kind |-> "full", awaited |-> FALSE,
                  snap |-> imported, delta |-> createEmptyDelta,
                  edited |-> FALSE, rebased |-> FALSE]
    IN /\ i \in DOMAIN reader
       /\ reader' = Without(reader, i)
       /\ dispatch([type |-> "LOAD", state |-> imported])
       /\ inflight' = Rebased(Edited(inflight)) \cup {write}
       /\ markAsSynced(reader[i])
       /\ lastSync' = Sync("import", write \notin inflight', baseline', imported)
       /\ lastOp' = PageOp("import", imported, FALSE)
       /\ nImports' = nImports + 1
       /\ UNCHANGED <<dataLoaded, saving, run, callVars, nExec, nOps>>
       /\ Defer

(* reader.onload with a file that is not valid: a toast, nothing else. *)
ImportRejected(i) ==
    /\ i \in DOMAIN reader
    /\ reader' = Without(reader, i)
    /\ lastOp' = PageOp("importRejected", INITIAL_STATE, FALSE)
    /\ UNCHANGED <<histVars, baseVars, dataLoaded, hasUnsaved, timer, rendered,
                   inflight, saving, lastSync, run, callVars, cntVars>>

(* The write of an import settles; nobody waits for it. *)
ImportWriteSettles(w) ==
    /\ w \in inflight
    /\ ~w.awaited
    /\ inflight' = inflight \ {w}
    /\ lastOp' = PageOp("importWriteSettles", w.snap, FALSE)
    /\ UNCHANGED <<histVars, baseVars, dataLoaded, hasUnsaved, timer, rendered,
                   saving, reader, lastSync, run, callVars, cntVars>>

NextPage ==
    \/ \E i \in 1..Len(LoadStatePool) : DataArrives(LoadStatePool[i])
    \/ \E i \in 1..Len(PageActionPool) : PageExecute(PageActionPool[i])
    \/ PageUndo
    \/ PageRedo
    \/ ClickSave
    \/ AutoSaveTick
    \/ \E w \in inflight : SaveSucceeds(w)
    \/ \E w \in inflight : SaveFails(w)
    \/ ImportSelect
    \/ \E i \in DOMAIN reader : ImportLoad(i, ImportedState(nImports + 1))
    \/ \E i \in DOMAIN reader : ImportRejected(i)
    \/ \E w \in inflight : ImportWriteSettles(w)
    \/ Rerender
    \/ RunEffect

SpecPage == Init /\ [][NextPage]_vars

----------------------------------------------------------------------------
(* The page left to auto-save: the event arrives, the user makes a bounded *)
(* number of edits and never clicks save, the interval fires for as long   *)
(* as it is set and every write succeeds.                                  *)

(* The interval callback, as often as the interval fires. *)
AutoSaveInterval ==
    /\ timer # <<>>
    /\ Cardinality(inflight) < MaxWrites
    /\ handleSave(timer[1])
    /\ UNCHANGED <<nOps, nImports>>
    /\ Defer

NextAutoSave ==
    \/ \E i \in 1..Len(LoadStatePool) : DataArrives(LoadStatePool[i])
    \/ \E i \in 1..Len(PageActionPool) : PageExecute(PageActionPool[i])
    \/ AutoSaveInterval
    \/ \E w \in inflight : SaveSucceeds(w)
    \/ Rerender
    \/ RunEffect

(* The event query resolves, setInterval keeps firing while the interval   *)
(* is set, a write that always succeeds settles, a scheduled render        *)
(* happens and its effect runs.                                            *)
SpecAutoSave ==
    /\ Init
    /\ [][NextAutoSave]_vars
    /\ WF_vars(\E i \in 1..Len(LoadStatePool) : DataArrives(LoadStatePool[i]))
    /\ WF_vars(AutoSaveInterval)
    /\ WF_vars(\E w \in inflight : SaveSucceeds(w))
    /\ WF_vars(Rerender)
    /\ WF_vars(RunEffect)

----------------------------------------------------------------------------
(* Properties of the history store (checked under Spec).                   *)

BeforeHistory == History(lastOp.before.past, lastOp.before.present,
                         lastOp.before.future)

Timeline(h) == h.past \o <<h.present>> \o h.future

(* C1 as stated: after any N execute() calls from a history with an empty  *)
(* future, N undo() calls bring present back to the state before the       *)
(* sequence and N redo() calls then bring it to the state after it.        *)
C1_RoundTripAnyActions ==
    /\ (run.phase = "undo" /\ run.k = run.n) => present = run.s0
    /\ (run.phase = "redo" /\ run.k = run.n) => present = run.sN

(* C1 amended: the round trip holds for N execute() calls each of which    *)
(* pushed a history frame, that is, for every action but a SET_STATE whose *)
(* payload is the present object itself.                                   *)
C1_RoundTripPushedActions ==
    run.pushed => C1_RoundTripAnyActions

C1_Witness ==
    /\ run.phase = "redo" /\ run.k = run.n /\ run.n >= 2 /\ run.pushed
    /\ run.s0 # run.sN
    /\ Len(past) > run.n

(* C2: an execute() that changes the state appends the previous present to *)
(* past, makes the reducer's result the present and empties future, so a   *)
(* redo() right after it changes nothing.                                  *)
C2_ExecutePushesAndClearsFuture ==
    (lastOp.op = "execute" /\ present # lastOp.before.present) =>
        /\ past = Append(lastOp.before.past, lastOp.before.present)
        /\ present = reducer(lastOp.before.present, lastOp.action).st
        /\ future = <<>>
        /\ historyReducer(history, [type |-> "REDO"]) = history

(* execute(a); execute(b); undo(); execute(c) has just been run. *)
C2_Witness ==
    /\ lastOp.op = "execute"
    /\ Len(lastOp.before.past) = 1
    /\ Len(lastOp.before.future) = 1
    /\ present # lastOp.before.present
    /\ future = <<>>

(* C3 as stated: an execute() whose action leaves the state's content      *)
(* unchanged leaves past and future untouched.                             *)
C3_NoOpLeavesHistory ==
    (/\ lastOp.op = "execute"
     /\ reducer(lastOp.before.present, lastOp.action).st = lastOp.before.present)
    => (past = lastOp.before.past /\ future = lastOp.before.future)

(* C10: undo() and redo() move one state between past, present and future, *)
(* are no-ops at the ends, leave past ++ [present] ++ future unchanged,    *)
(* and undo() followed by redo() restores the history.                     *)
C10_UndoRedoMoves ==
    LET b == BeforeHistory
    IN /\ lastOp.op = "undo" =>
            IF b.past = <<>> THEN history = b
            ELSE /\ present = b.past[Len(b.past)]
                 /\ past = SubSeq(b.past, 1, Len(b.past) - 1)
                 /\ future = <<b.present>> \o b.future
       /\ lastOp.op = "redo" =>
            IF b.future = <<>> THEN history = b
            ELSE /\ present = b.future[1]
                 /\ past = Append(b.past, b.present)
                 /\ future = Tail(b.future)
       /\ lastOp.op \in {"undo", "redo"} => Timeline(history) = Timeline(b)
       /\ past # <<>> =>
            historyReducer(historyReducer(history, [type |-> "UNDO"]),
                           [type |-> "REDO"]) = history

C10_Witness ==
    /\ lastOp.op = "redo"
    /\ Len(lastOp.before.future) >= 2
    /\ Len(lastOp.before.past) >= 1
    /\ present # lastOp.before.present

----------------------------------------------------------------------------
(* Properties of the page (checked under SpecPage).                        *)

Range(seq) == {seq[i] : i \in DOMAIN seq}

RECURSIVE Keep(_, _)
Keep(seq, S) ==
    IF seq = <<>> THEN <<>>
    ELSE IF Head(seq) \in S THEN <<Head(seq)>> \o Keep(Tail(seq), S)
         ELSE Keep(Tail(seq), S)

(* The delta of one collection as the definition gives it: created and    *)
(* updated as the entities of the current collection, in its order.       *)
CreatedOf(cur, baseIds) ==
    Keep(cur, {e \in Range(cur) : e.id \notin Range(baseIds)})

UpdatedOf(cur, base, baseIds) ==
    Keep(cur, {e \in Range(cur) :
                 /\ e.id \in Range(baseIds)
                 /\ \E b \in Range(base) :
                        b.id = e.id /\ JSONstringify(e) # JSONstringify(b)})

DeletedOf(cur, baseIds) == Range(baseIds) \ {e.id : e \in Range(cur)}

MatchesDefinition(d, cur, base, baseIds) ==
    /\ d.created = CreatedOf(cur, baseIds)
    /\ d.updated = UpdatedOf(cur, base, baseIds)
    /\ Range(d.deleted) = DeletedOf(cur, baseIds)
    /\ Len(d.deleted) = Cardinality(DeletedOf(cur, baseIds))

DeltaMatches(d, cur, base, baseIds) ==
    /\ MatchesDefinition(d.guests, cur.guests, base.guests, baseIds.guests)
    /\ MatchesDefinition(d.expenses, cur.expenses, base.expenses,
                         baseIds.expenses)
    /\ MatchesDefinition(d.guestGroups, cur.guestGroups, base.guestGroups,
                         baseIds.guestGroups)

PendingDelta == getDeltas(present, baseline, baselineIds)

(* C4: for each collection, created = entities whose id is not in          *)
(* baselineIds, updated = entities whose id is in baselineIds and whose    *)
(* serialized content differs from the baseline entity of that id,         *)
(* deleted = ids of baselineIds with no entity in the current state.       *)
C4_DeltaDefinition ==
    DeltaMatches(PendingDelta, present, baseline, baselineIds)

(* Baseline {g1: Ana}; g1 renamed and g2 added. *)
C4_Witness ==
    /\ baselineIds.guests = <<"g1">>
    /\ PendingDelta.guests.created = <<gBia>>
    /\ PendingDelta.guests.updated = <<gAnaRenamed>>
    /\ PendingDelta.guests.deleted = <<>>

(* C5 as stated: right after markAsSynced() has run - in a save or in the  *)
(* import handler - and the page has rendered again, getDeltas() is empty  *)
(* as long as no edit was made since.                                      *)
C5_EmptyAfterSync ==
    (/\ lastOp.op \in {"saveSucceeds", "saveNoChange", "import"}
     /\ ~lastOp.edited)
    => (PendingDelta = createEmptyDelta /\
        ~hasPendingChanges(present, baseline, baselineIds))

(* C6: when a save succeeds, the pending delta is exactly the difference   *)
(* between the present and the snapshot that was sent: edits made while    *)
(* the write was in flight are pending, what was sent is not.              *)
C6_InFlightEditsStayPending ==
    lastOp.op = "saveSucceeds" =>
        /\ baseline = lastOp.state
        /\ baselineIds = IdSets(lastOp.state)
        /\ DeltaMatches(PendingDelta, present, lastOp.state,
                        IdSets(lastOp.state))
        /\ PendingDelta.budgetTotal =
             IF present.budgetTotal # lastOp.state.budgetTotal
             THEN <<present.budgetTotal>> ELSE <<>>

(* A save succeeded after a guest was added while it was in flight. *)
C6_Witness ==
    /\ lastOp.op = "saveSucceeds"
    /\ lastOp.edited
    /\ PendingDelta.guests.created = <<gBia>>
    /\ PendingDelta.expenses = EmptyCollectionDelta
    /\ lastOp.state # INITIAL_STATE
    /\ lastOp.state # ServerState

(* A write issued by handleSave has just left the set of writes in flight *)
(* by failing.                                                            *)
Failed(w) ==
    /\ w \in inflight
    /\ w.awaited
    /\ w \notin inflight'
    /\ lastOp'.op = "saveFails"

SameDeltaNext(w) == getDeltas(present', baseline', baselineIds') = w.delta

(* C7 as stated: a failed write leaves baseline and baselineIds unchanged  *)
(* and, with no edit since its snapshot, the next getDeltas() returns the  *)
(* delta of the failed attempt.                                            *)
C7_FailedSaveSameDelta ==
    [][\A w \in inflight :
         Failed(w) => /\ baseline' = baseline
                      /\ baselineIds' = baselineIds
                      /\ ~w.edited => SameDeltaNext(w)]_vars

(* Saves that do not overlap: a failed write leaves baseline and           *)
(* baselineIds unchanged and, with no edit since its snapshot and no other *)
(* save having advanced the baseline while it was in flight, the next      *)
(* getDeltas() returns the delta of the failed attempt.                    *)
C7_FailedSaveSameDeltaUnlessRebased ==
    [][\A w \in inflight :
         Failed(w) => /\ baseline' = baseline
                      /\ baselineIds' = baselineIds
                      /\ (~w.edited /\ ~w.rebased) => SameDeltaNext(w)]_vars

(* A save of an added guest failed, nothing was edited meanwhile and the   *)
(* guest is still pending.                                                 *)
C7_Witness ==
    /\ lastOp.op = "saveFails"
    /\ ~lastOp.edited
    /\ present = lastOp.state
    /\ baseline = ServerState
    /\ PendingDelta.guests.created = <<gBia>>
    /\ inflight = {}

(* C8 as stated: whenever a save or an import has advanced the baseline,   *)
(* the write carrying the state the baseline advanced to had completed.    *)
C8_SyncedOnlyAfterDurable ==
    lastSync.by \in {"save", "import"} =>
        (lastSync.settled /\ lastSync.sameState)

(* C9: right after loadState(newState), present is newState, past and      *)
(* future are empty, undo and redo change nothing, baseline is newState    *)
(* and baselineIds are the ids of newState, whatever the history was.      *)
C9_LoadStateResets ==
    lastOp.op = "loadState" =>
        /\ present = lastOp.state
        /\ past = <<>>
        /\ future = <<>>
        /\ historyReducer(history, [type |-> "UNDO"]) = history
        /\ historyReducer(history, [type |-> "REDO"]) = history
        /\ baseline = lastOp.state
        /\ Range(baselineIds.guests) = {g.id : g \in Range(lastOp.state.guests)}
        /\ Range(baselineIds.expenses) =
             {e.id : e \in Range(lastOp.state.expenses)}
        /\ Range(baselineIds.guestGroups) =
             {g.id : g \in Range(lastOp.state.guestGroups)}
        /\ PendingDelta = createEmptyDelta

(* loadState ran on a history with states to undo and to redo. *)
C9_Witness ==
    /\ lastOp.op = "loadState"
    /\ lastOp.before.past # <<>>
    /\ lastOp.before.future # <<>>
    /\ lastOp.before.present # lastOp.state
    /\ lastOp.before.baseline # lastOp.state

----------------------------------------------------------------------------
(* The sync strategy of handleSave as a function of the delta.  A call is  *)
(* made on a present and a baseline that differ by chosen changes.         *)

MaxKept == 6     \* entities of the present that are unchanged

grpCasalBlue == GuestGroup("grp1", "Casal", "#0000ff")
grpFamilia == GuestGroup("grp3", "Familia", "#00ff00")
expOld == ExpenseItem("e3", "Flores", 300, "true")
gCid == Guest("g3", "Cid", "grp1", FALSE, Undefined, Undefined, GuestKeys)

Kept(k) ==
    [i \in 1..k |-> ExpenseItem("k" \o ToString(i), "Outros", 0, "true")]

Pick(flag, e) == IF flag THEN <<e>> ELSE <<>>

(* c: created, u: updated, d: deleted, per collection; b: budget changed. *)
ChangeFlags ==
    [cG : BOOLEAN, uG : BOOLEAN, dG : BOOLEAN,
     cGr : BOOLEAN, uGr : BOOLEAN, dGr : BOOLEAN,
     cE : BOOLEAN, uE : BOOLEAN, dE : BOOLEAN, b : BOOLEAN]

PresentOf(f, k) ==
    AppState(IF f.b THEN 0 ELSE InitialBudget,
             Pick(f.uE, expInitPaid) \o Pick(f.cE, expNova) \o Kept(k),
             Pick(f.uG, gAnaRenamed) \o Pick(f.cG, gBia),
             Pick(f.uGr, grpCasalBlue) \o Pick(f.cGr, grpAmigos))

BaselineOf(f, k) ==
    AppState(InitialBudget,
             Pick(f.uE, expInit) \o Pick(f.dE, expOld) \o Kept(k),
             Pick(f.uG, gAna) \o Pick(f.dG, gCid),
             Pick(f.uGr, grpCasal) \o Pick(f.dGr, grpFamilia))

InitSync ==
    /\ InitHook
    /\ \E f \in ChangeFlags : \E k \in 0..MaxKept :
           arg = <<PresentOf(f, k), BaselineOf(f, k)>>
    /\ result = <<>>

(* handleSave up to the choice of the write. *)
ChooseTransfer ==
    /\ result = <<>>
    /\ LET delta == getDeltas(arg[1], arg[2], IdSets(arg[2]))
       IN result' = <<[delta |-> delta, kind |-> transfer(delta, arg[1])]>>
    /\ UNCHANGED <<hookVars, arg>>

NextSync == ChooseTransfer

SpecSync == InitSync /\ [][NextSync]_vars

NineArrays(delta) ==
    Len(delta.guests.created) + Len(delta.guests.updated)
    + Len(delta.guests.deleted)
    + Len(delta.guestGroups.created) + Len(delta.guestGroups.updated)
    + Len(delta.guestGroups.deleted)
    + Len(delta.expenses.created) + Len(delta.expenses.updated)
    + Len(delta.expenses.deleted)

ItemsOf(state) ==
    Cardinality(DOMAIN state.guests) + Cardinality(DOMAIN state.guestGroups)
    + Cardinality(DOMAIN state.expenses)

(* C11 as stated: with totalChanges the sum of the lengths of the nine     *)
(* arrays, the save path chooses a delta transfer exactly when             *)
(* totalChanges < totalItems * 0.5 and a full-state transfer otherwise.    *)
C11_ThresholdNineArrays ==
    result # <<>> =>
        result[1].kind = IF 2 * NineArrays(result[1].delta) < ItemsOf(arg[1])
                         THEN "delta" ELSE "full"

(* C11 amended: totalChanges also counts one for a changed budgetTotal;    *)
(* with totalChanges = 0 nothing is transferred, otherwise a delta exactly *)
(* when totalChanges < totalItems * 0.5 and the full state otherwise.      *)
C11_ThresholdWithBudget ==
    result # <<>> =>
        LET d == result[1].delta
            changes == NineArrays(d) + Len(d.budgetTotal)
        IN result[1].kind =
             IF changes = 0 THEN "none"
             ELSE IF 2 * changes < ItemsOf(arg[1]) THEN "delta" ELSE "full"

(* Ten items, four entity changes and a changed budget: five changes are   *)
(* not fewer than half of ten, so the full state is sent.                  *)
C11_Witness ==
    /\ result # <<>>
    /\ ItemsOf(arg[1]) = 10
    /\ NineArrays(result[1].delta) = 4
    /\ result[1].delta.budgetTotal # <<>>
    /\ result[1].kind = "full"

----------------------------------------------------------------------------
(* The social tree of the export (src/src/lib/export.ts).  A Map is a     *)
(* sequence in insertion order; treeNodes holds the nodes, keyed by the    *)
(* id of their guest.                                                      *)

MaxGuests == 3     \* guests in a list given to buildSocialTree
StackLimit == 8    \* nested calls the runtime allows before a RangeError

SocialTreeNode(guest, level, chain, childCount, isRoot) ==
    [guest |-> guest, level |-> level, chain |-> chain,
     childCount |-> childCount, isRoot |-> isRoot]

isGuestRoot_ParentOnly(guest) == Falsy(guest.parentId)

isGuestRoot(guest) ==
    IF guest.isRoot = "true" THEN TRUE
    ELSE IF guest.isRoot = "false" THEN FALSE
    ELSE Falsy(guest.parentId)

TreeHas(treeNodes, id) == \E i \in DOMAIN treeNodes : treeNodes[i].guest.id = id

TreeGet(treeNodes, id) ==
    treeNodes[CHOOSE i \in DOMAIN treeNodes : treeNodes[i].guest.id = id]

visitedHas_Never(visited, id) == FALSE

visitedHas(visited, id) == id \in visited

(* The node returned for a guest met again in its own chain; not stored. *)
revisitedNode(guest) == SocialTreeNode(guest, 0, <<>>, 0, TRUE)

rootNode_MarksGuest(guest) ==
    SocialTreeNode([guest EXCEPT !.isRoot = "true"], 0, <<guest.name>>, 0, TRUE)

(* { guest, level: 0, chain: [guest.name], childCount: 0, isRoot: true }:  *)
(* the node holds the guest object itself.                                 *)
rootNode(guest) == SocialTreeNode(guest, 0, <<guest.name>>, 0, TRUE)

orphanNode_KeepsFlag(guest) ==
    SocialTreeNode(guest, 0, <<guest.name>>, 0, isGuestRoot(guest))

(* Parent not found, treat as root. *)
orphanNode(guest) == SocialTreeNode(guest, 0, <<guest.name>>, 0, TRUE)

childNode_SameLevel(guest, parentNode) ==
    SocialTreeNode(guest, parentNode.level,
                   Append(parentNode.chain, guest.name), 0, FALSE)

childNode(guest, parentNode) ==
    SocialTreeNode(guest, parentNode.level + 1,
                   Append(parentNode.chain, guest.name), 0, FALSE)

(* guest.parentId ? guestById.get(guest.parentId) : null, as <<>> or <<p>> *)
parentOf(guests, guest) ==
    IF ~Falsy(guest.parentId) /\ MapHas(guests, guest.parentId)
    THEN <<MapGet(guests, guest.parentId)>>
    ELSE <<>>

Returned(node, treeNodes) ==
    [node |-> node, treeNodes |-> treeNodes, thrown |-> FALSE]

Thrown(guest, treeNodes) ==
    [node |-> revisitedNode(guest), treeNodes |-> treeNodes, thrown |-> TRUE]

RECURSIVE calculateLevel(_, _, _, _, _)
calculateLevel(guests, guest, visited, treeNodes, depth) ==
    IF depth > StackLimit THEN Thrown(guest, treeNodes)
    ELSE IF visitedHas(visited, guest.id)
    THEN Returned(revisitedNode(guest), treeNodes)
    ELSE IF TreeHas(treeNodes, guest.id)
    THEN Returned(TreeGet(treeNodes, guest.id), treeNodes)
    ELSE IF isGuestRoot(guest)
    THEN Returned(rootNode(guest), Append(treeNodes, rootNode(guest)))
    ELSE IF parentOf(guests, guest) = <<>>
    THEN Returned(orphanNode(guest), Append(treeNodes, orphanNode(guest)))
    ELSE LET r == calculateLevel(guests, parentOf(guests, guest)[1],
                                 visited \cup {guest.id}, treeNodes, depth + 1)
             node == childNode(guest, r.node)
         IN IF r.thrown THEN r
            ELSE Returned(node, Append(r.treeNodes, node))

RECURSIVE firstPass(_, _, _)
(* guests.forEach(guest => calculateLevel(guest)), from the i-th guest on *)
firstPass(guests, i, acc) ==
    IF i > Len(guests) \/ acc.thrown THEN acc
    ELSE firstPass(guests, i + 1,
                   calculateLevel(guests, guests[i], {}, acc.treeNodes, 1))

(* node.childCount++ *)
incrementChildCount(treeNodes, id) ==
    [i \in DOMAIN treeNodes |->
        IF treeNodes[i].guest.id = id
        THEN [treeNodes[i] EXCEPT !.childCount = @ + 1]
        ELSE treeNodes[i]]

reachedRoot_Never(guests, currentId) == FALSE

(* parentGuest && isGuestRoot(parentGuest) *)
reachedRoot(guests, currentId) ==
    MapHas(guests, currentId) /\ isGuestRoot(MapGet(guests, currentId))

RECURSIVE walkUp(_, _, _, _)
(* while (currentId && !visited.has(currentId)) { ... } *)
walkUp(guests, currentId, visited, treeNodes) ==
    IF Falsy(currentId) \/ currentId \in visited THEN treeNodes
    ELSE IF ~TreeHas(treeNodes, currentId) THEN treeNodes
    ELSE IF reachedRoot(guests, currentId)
    THEN incrementChildCount(treeNodes, currentId)
    ELSE walkUp(guests,
                IF MapHas(guests, currentId)
                THEN MapGet(guests, currentId).parentId ELSE Undefined,
                visited \cup {currentId},
                incrementChildCount(treeNodes, currentId))

secondPass_FirstGuestOnly(guests, i, treeNodes) ==
    IF /\ guests # <<>>
       /\ ~Falsy(guests[1].parentId)
       /\ ~isGuestRoot(guests[1])
    THEN walkUp(guests, guests[1].parentId, {}, treeNodes)
    ELSE treeNodes

RECURSIVE secondPass(_, _, _)
(* guests.forEach(guest => { if (guest.parentId && !isGuestRoot(guest)) *)
secondPass(guests, i, treeNodes) ==
    IF i > Len(guests) THEN treeNodes
    ELSE secondPass(guests, i + 1,
           IF ~Falsy(guests[i].parentId) /\ ~isGuestRoot(guests[i])
           THEN walkUp(guests, guests[i].parentId, {}, treeNodes)
           ELSE treeNodes)

(* The call: the map it returns, or the exception it ends with. *)
buildSocialTree(guests) ==
    LET first == firstPass(guests, 1, Returned(<<>>, <<>>))
    IN IF first.thrown THEN [thrown |-> TRUE, treeNodes |-> <<>>]
       ELSE [thrown |-> FALSE,
             treeNodes |-> secondPass(guests, 1, first.treeNodes)]

(* A guest object of the list given to a call: the guest and its place in  *)
(* the array, which tells apart two objects of the same id or content.     *)
GuestObject(guest, ref) ==
    [id |-> guest.id, name |-> guest.name, groupId |-> guest.groupId,
     confirmed |-> guest.confirmed, parentId |-> guest.parentId,
     isRoot |-> guest.isRoot, keys |-> guest.keys, ref |-> ref]

(* The guest an object holds. *)
GuestOf(object) ==
    Guest(object.id, object.name, object.groupId, object.confirmed,
          object.parentId, object.isRoot, object.keys)

(* The guest objects as a call leaves them.  A node holds its guest by     *)
(* reference: whatever the call wrote to node.guest is read in the object  *)
(* of the list that the node holds - of two guests with one id, the one    *)
(* calculateLevel was first given.  An object held by no stored node was   *)
(* handed to no node that outlives the call.                               *)
guestsAfterCall(objects, treeNodes) ==
    [i \in DOMAIN objects |->
        LET held == {k \in DOMAIN treeNodes : treeNodes[k].guest.ref = i}
        IN IF held # {}
           THEN GuestOf(treeNodes[CHOOSE k \in held : TRUE].guest)
           ELSE GuestOf(objects[i])]

(* One call as its caller sees it: what it returned and the guest list     *)
(* after it.                                                               *)
callBuildSocialTree(guests) ==
    LET objects == [i \in DOMAIN guests |-> GuestObject(guests[i], i)]
        r == buildSocialTree(objects)
    IN [thrown |-> r.thrown,
        treeNodes |-> [k \in DOMAIN r.treeNodes |->
                          [r.treeNodes[k] EXCEPT !.guest = GuestOf(@)]],
        guests |-> guestsAfterCall(objects, r.treeNodes)]

(* Guest lists: ids g1..gn in order, each with any parentId among the ids  *)
(* of the list, a dangling one or none, and any isRoot.                    *)
TreeIds == [i \in 1..MaxGuests |-> "g" \o ToString(i)]
TreeNames == [i \in 1..MaxGuests |-> "N" \o ToString(i)]
DanglingId == "gone"

TreeGuest(i, parentId, isRoot) ==
    Guest(TreeIds[i], TreeNames[i], "grp1", FALSE, parentId, isRoot, GuestKeys)

GuestLists ==
    UNION {[1..n -> {Undefined, DanglingId} \cup {TreeIds[j] : j \in 1..n}]
             \X [1..n -> {Undefined, "true", "false"}] : n \in 0..MaxGuests}

ListOf(c) == [i \in DOMAIN c[1] |-> TreeGuest(i, c[1][i], c[2][i])]

InitTree ==
    /\ InitHook
    /\ \E c \in GuestLists : arg = <<ListOf(c)>>
    /\ result = <<>>

BuildTree ==
    /\ result = <<>>
    /\ result' = <<callBuildSocialTree(arg[1])>>
    /\ UNCHANGED <<hookVars, arg>>

(* A second call, on the guest list as the first call left it. *)
BuildTreeAgain ==
    /\ Len(result) = 1
    /\ result' = Append(result, callBuildSocialTree(result[1].guests))
    /\ UNCHANGED <<hookVars, arg>>

NextTree ==
    \/ BuildTree
    \/ BuildTreeAgain

SpecTree == InitTree /\ [][NextTree]_vars

----------------------------------------------------------------------------
(* Properties of the social tree (checked under SpecTree).                 *)

TreeInput == arg[1]

Built == result # <<>> /\ ~result[1].thrown

NodeOf(id) == TreeGet(result[1].treeNodes, id)

HasGuest(guests, id) == \E i \in DOMAIN guests : guests[i].id = id

GuestWith(guests, id) ==
    guests[CHOOSE i \in DOMAIN guests : guests[i].id = id]

Resolvable(guests, g) == ~Falsy(g.parentId) /\ HasGuest(guests, g.parentId)

(* One parent edge up from the guest with this id, Undefined if none. *)
PtrUp(guests, id) ==
    IF HasGuest(guests, id) /\ ~Falsy(GuestWith(guests, id).parentId)
    THEN GuestWith(guests, id).parentId
    ELSE Undefined

RECURSIVE PtrUpN(_, _, _)
PtrUpN(guests, id, k) ==
    IF k = 0 THEN id ELSE PtrUpN(guests, PtrUp(guests, id), k - 1)

OnCycle(guests, g) == \E k \in 1..Len(guests) : PtrUpN(guests, g.id, k) = g.id

Acyclic(guests) == \A i \in DOMAIN guests : ~OnCycle(guests, guests[i])

(* A guest at which a chain ends: marked as root, or without a parent in  *)
(* the list.                                                               *)
EndsChain(guests, g) == g.isRoot = "true" \/ ~Resolvable(guests, g)

(* The number of parent edges from g to its nearest root. *)
EdgesToRoot(guests, g) ==
    CHOOSE k \in 0..Len(guests) :
        /\ \A j \in 0..(k - 1) :
               ~EndsChain(guests, GuestWith(guests, PtrUpN(guests, g.id, j)))
        /\ EndsChain(guests, GuestWith(guests, PtrUpN(guests, g.id, k)))

(* C12: in a list with acyclic parent chains every guest's level is the    *)
(* number of parent edges to its nearest root, and its chain has level + 1 *)
(* names, from the root's name down to the guest's own.                    *)
C12_LevelIsDistanceToRoot ==
    (Built /\ Acyclic(TreeInput)) =>
        \A i \in DOMAIN TreeInput :
            LET g == TreeInput[i]
                node == NodeOf(g.id)
                k == EdgesToRoot(TreeInput, g)
            IN /\ node.level = k
               /\ Len(node.chain) = node.level + 1
               /\ node.chain[1] =
                    GuestWith(TreeInput, PtrUpN(TreeInput, g.id, k)).name
               /\ node.chain[Len(node.chain)] = g.name
               /\ \A j \in 0..k :
                    node.chain[k + 1 - j] =
                      GuestWith(TreeInput, PtrUpN(TreeInput, g.id, j)).name

(* A chain of three: g1 invited by g2 invited by g3. *)
C12_Witness ==
    /\ Built
    /\ Acyclic(TreeInput)
    /\ Len(TreeInput) = 3
    /\ NodeOf("g1").level = 2
    /\ NodeOf("g1").chain = <<"N3", "N2", "N1">>

(* C13: for a list with a cycle among the parentId references (a guest     *)
(* that is its own parent included) buildSocialTree returns without an     *)
(* exception, and the map has an entry for every guest id.                 *)
C13_CyclicListsGetAllEntries ==
    (result # <<>> /\ ~Acyclic(TreeInput)) =>
        /\ ~result[1].thrown
        /\ \A i \in DOMAIN TreeInput :
               TreeHas(result[1].treeNodes, TreeInput[i].id)
        /\ Len(result[1].treeNodes) = Len(TreeInput)

(* g1 -> g2 -> g3 -> g1, none marked as root. *)
C13_Witness ==
    /\ Built
    /\ Len(TreeInput) = 3
    /\ \A i \in 1..3 : TreeInput[i].isRoot = Undefined
    /\ PtrUp(TreeInput, "g1") = "g2"
    /\ PtrUp(TreeInput, "g2") = "g3"
    /\ PtrUp(TreeInput, "g3") = "g1"
    /\ Len(result[1].treeNodes) = 3

(* The ancestor path of g, upward along parentId and ending at the first   *)
(* root, passes through x.                                                 *)
OnPath(guests, g, x) ==
    \E k \in 1..Len(guests) :
        /\ \A j \in 0..(k - 1) :
               /\ HasGuest(guests, PtrUpN(guests, g.id, j))
               /\ ~EndsChain(guests, GuestWith(guests, PtrUpN(guests, g.id, j)))
        /\ PtrUpN(guests, g.id, k) = x.id

ChildrenOf(guests, S) ==
    {i \in DOMAIN guests :
        /\ ~EndsChain(guests, guests[i])
        /\ \E j \in S : guests[i].parentId = guests[j].id}

RECURSIVE Down(_, _, _)
Down(guests, S, n) ==
    IF n = 0 THEN S ELSE Down(guests, S \cup ChildrenOf(guests, S), n - 1)

(* The guests below the i-th guest. *)
Subtree(guests, i) == Down(guests, ChildrenOf(guests, {i}), Len(guests))

(* C14: the childCount of a guest is the number of guests whose ancestor   *)
(* path passes through it, and the childCount of a root is the number of   *)
(* guests in its subtree.                                                  *)
C14_ChildCountIsInfluence ==
    Built =>
        \A i \in DOMAIN TreeInput :
            LET x == TreeInput[i]
            IN /\ NodeOf(x.id).childCount =
                    Cardinality({j \in DOMAIN TreeInput :
                                    OnPath(TreeInput, TreeInput[j], x)})
               /\ EndsChain(TreeInput, x) =>
                    NodeOf(x.id).childCount =
                      Cardinality(Subtree(TreeInput, i))

(* g1 invited by g2 invited by the root g3. *)
C14_Witness ==
    /\ Built
    /\ Len(TreeInput) = 3
    /\ NodeOf("g3").isRoot
    /\ NodeOf("g3").childCount = 2
    /\ NodeOf("g2").childCount = 1
    /\ NodeOf("g1").childCount = 0

(* C15 as stated: for every parentId cycle of the list, the map holds a    *)
(* guest of that cycle at level 0 and marked isRoot.                       *)
C15_CycleHasRootAtLevelZero ==
    Built =>
        \A i \in DOMAIN TreeInput :
            OnCycle(TreeInput, TreeInput[i]) =>
                \E k \in 1..Len(TreeInput) :
                    LET h == NodeOf(PtrUpN(TreeInput, TreeInput[i].id, k))
                    IN h.level = 0 /\ h.isRoot

(* C16: a guest not on a parent cycle is output as a root - level 0, chain *)
(* of its own name - when isRoot is true, when isRoot is unset and it has  *)
(* no parentId, or when its parentId names no guest; with isRoot unset or  *)
(* false and a parent in the list it is output as a non-root one level     *)
(* below its parent, its chain the parent's chain followed by its name.    *)
C16_RootPolicy ==
    Built =>
        \A i \in DOMAIN TreeInput :
            LET g == TreeInput[i]
                node == NodeOf(g.id)
            IN ~OnCycle(TreeInput, g) =>
                 /\ (\/ g.isRoot = "true"
                     \/ g.isRoot = Undefined /\ Falsy(g.parentId)
                     \/ ~Falsy(g.parentId) /\ ~HasGuest(TreeInput, g.parentId))
                    => (node.isRoot /\ node.level = 0
                        /\ node.chain = <<g.name>>)
                 /\ (g.isRoot # "true" /\ Resolvable(TreeInput, g))
                    => /\ ~node.isRoot
                       /\ node.level = NodeOf(g.parentId).level + 1
                       /\ node.chain = Append(NodeOf(g.parentId).chain, g.name)

(* g1 is marked as root and names g2 as parent; g3 was invited by g1. *)
C16_Witness ==
    /\ Built
    /\ Len(TreeInput) = 3
    /\ TreeInput[1].isRoot = "true"
    /\ TreeInput[1].parentId = "g2"
    /\ TreeInput[3].isRoot = "false"
    /\ TreeInput[3].parentId = "g1"
    /\ NodeOf("g1").isRoot
    /\ NodeOf("g3").chain = <<"N1", "N3">>

(* C17: a guest with isRoot false and no parent in the list - parentId     *)
(* absent or dangling - is output as a root: isRoot true, level 0, chain   *)
(* of its own name.                                                        *)
C17_FalseFlagOrphanIsRoot ==
    Built =>
        \A i \in DOMAIN TreeInput :
            LET g == TreeInput[i]
            IN (g.isRoot = "false" /\ ~Resolvable(TreeInput, g)) =>
                 /\ NodeOf(g.id).isRoot
                 /\ NodeOf(g.id).level = 0
                 /\ NodeOf(g.id).chain = <<g.name>>

(* One guest has isRoot false and a dangling parentId, another has isRoot  *)
(* false and no parentId.                                                  *)
C17_Witness ==
    /\ Built
    /\ Len(TreeInput) >= 2
    /\ TreeInput[1].isRoot = "false"
    /\ TreeInput[1].parentId = DanglingId
    /\ TreeInput[2].isRoot = "false"
    /\ TreeInput[2].parentId = Undefined
    /\ NodeOf("g1").isRoot
    /\ NodeOf("g2").isRoot

----------------------------------------------------------------------------
(* getDeltas() as a function of the present and a synced baseline.         *)

MaxEntities == 2     \* guests in the present and in the baseline of a call

DeltaGuestPool == <<gAna, gAnaRenamed, gAnaReordered, gBia, gCid>>

DistinctIds(entities) ==
    \A i, j \in DOMAIN entities : entities[i].id = entities[j].id => i = j

DeltaGuestLists ==
    {l \in UNION {[1..n -> Range(DeltaGuestPool)] : n \in 0..MaxEntities} :
        DistinctIds(l)}

InitDelta ==
    /\ InitHook
    /\ \E cur \in DeltaGuestLists : \E base \in DeltaGuestLists :
           arg = <<AppState(InitialBudget, <<expInit>>, cur, <<grpCasal>>),
                   AppState(InitialBudget, <<expInit>>, base, <<grpCasal>>)>>
    /\ result = <<>>

(* markAsSynced() on the baseline state, the edits, then getDeltas(). *)
ComputeDelta ==
    /\ result = <<>>
    /\ result' = <<getDeltas(arg[1], arg[2], IdSets(arg[2]))>>
    /\ UNCHANGED <<hookVars, arg>>

NextDelta == ComputeDelta

SpecDelta == InitDelta /\ [][NextDelta]_vars

(* The two records have the same fields with the same values. *)
SameValues(e, b) ==
    /\ Range(e.keys) = Range(b.keys)
    /\ \A k \in Range(e.keys) : e[k] = b[k]

(* C18 as stated: an entity of the present whose id is in baselineIds and  *)
(* whose fields have the values of the baseline entity with that id is     *)
(* never in updated, whatever the order of the keys of the two records.    *)
C18_NoUpdateForSameValues ==
    result # <<>> =>
        \A i \in DOMAIN result[1].guests.updated :
            \A j \in DOMAIN arg[2].guests :
                arg[2].guests[j].id = result[1].guests.updated[i].id =>
                    ~SameValues(result[1].guests.updated[i], arg[2].guests[j])

----------------------------------------------------------------------------
(* The files read, with up to max guests: guests P1..Pn, each with or without an old id and a     *)
(* group name, and with one reference to its parent: none, the old id or   *)
(* the name of a guest of the file, an id or a name of no guest, or a name *)
(* that is a key of Object.prototype.  The exported states have one       *)
(* expense, changed or not.                                                *)
FileName(i) == "P" \o ToString(i)
FileOldId(i) == "a" \o ToString(i)

ParentRefs(n) ==
    {[parentId |-> Undefined, parentName |-> Undefined],
     [parentId |-> "a0", parentName |-> Undefined],
     [parentId |-> Undefined, parentName |-> "Nobody"],
     [parentId |-> Undefined, parentName |-> "constructor"]}
    \cup {[parentId |-> FileOldId(j), parentName |-> Undefined] : j \in 1..n}
    \cup {[parentId |-> Undefined, parentName |-> FileName(j)] : j \in 1..n}

FileGuestLists(max) ==
    UNION {{[i \in 1..n |->
               FileGuest(IF c[1][i] THEN FileOldId(i) ELSE Undefined,
                         FileName(i), Undefined,
                         IF c[2][i] THEN "Zeta" ELSE Undefined,
                         c[3][i].parentId, c[3][i].parentName)] :
             c \in [1..n -> BOOLEAN] \X [1..n -> BOOLEAN]
                   \X [1..n -> ParentRefs(n)]} : n \in 0..max}

(* A file in which two guests carry the same old id. *)
FileWithOneIdTwice ==
    File(<<InitialBudget>>, <<>>,
         <<FileGuest("a1", "P1", Undefined, "Zeta", Undefined, Undefined),
           FileGuest("a1", "P2", Undefined, "Zeta", Undefined, Undefined)>>,
         <<>>, Undefined, TRUE)

(* Files of the old format (group instead of groupName), with groups whose *)
(* names are integer-like keys or __proto__, and with expenses.            *)
FileOldFormat ==
    File(<<InitialBudget>>, <<>>,
         <<FileGuest(Undefined, "P1", "Old", Undefined, Undefined, Undefined),
           FileGuest(Undefined, "P2", "Old", "Zeta", Undefined, Undefined)>>,
         <<>>, Undefined, TRUE)

FileIndexGroups ==
    File(<<InitialBudget>>,
         <<FileGroup("Zeta", "#f43f5e"), FileGroup("10", "#d946ef"),
           FileGroup("9", Undefined)>>,
         <<FileGuest(Undefined, "P1", Undefined, Undefined, Undefined, Undefined)>>,
         <<>>, Undefined, TRUE)

FileProtoGroup ==
    File(<<InitialBudget>>, <<FileGroup(ProtoKey, "#f43f5e")>>,
         <<FileGuest(Undefined, "P1", Undefined, ProtoKey, Undefined, Undefined),
           FileGuest(Undefined, "P2", Undefined, "name", Undefined, Undefined)>>,
         <<>>, Undefined, TRUE)

FileWithExpenses ==
    File(<<InitialBudget>>, <<>>, <<>>,
         <<<<FileExpense("Buffet", <<500>>, "false"),
             FileExpense(Undefined, <<>>, Undefined)>>>>, Undefined, TRUE)

FileEmptyExpenses ==
    File(<<InitialBudget>>, <<>>, <<>>, <<<<>>>>, Undefined, TRUE)

FilePool(max) ==
    {File(<<InitialBudget>>, groups, guests, <<>>, Undefined, TRUE) :
        groups \in {<<>>, <<FileGroup("Casal", "#f43f5e")>>},
        guests \in FileGuestLists(max)}
    \cup {File(<<>>, <<>>, <<>>, <<>>, Undefined, TRUE),
          File(<<InitialBudget>>, <<>>, <<>>, <<>>, Undefined, FALSE),
          FileWithOneIdTwice, FileOldFormat, FileIndexGroups, FileProtoGroup,
          FileWithExpenses, FileEmptyExpenses}

(* The states exported: guests g1..gn named P1..Pn in one group, each      *)
(* invited by a guest of the list or by nobody.                            *)
ExportStates(max) ==
    UNION {{AppState(InitialBudget, <<e>>,
                     [i \in 1..n |->
                        Guest("g" \o ToString(i), FileName(i), "grp1", FALSE,
                              p[i], Undefined, GuestKeys)],
                     <<grpCasal>>) :
             p \in [1..n -> {Undefined} \cup {"g" \o ToString(j) : j \in 1..n}],
             e \in {expInit, expInitPaid}}
           : n \in 0..max}

(* arg: the file and, for an exported file, the state it was exported from *)
InitImport ==
    /\ InitHook
    /\ \/ \E json \in FilePool(MaxFileGuests) : arg = <<json, <<>>>>
       \/ \E state \in ExportStates(MaxFileGuests) :
             arg = <<handleExport(state), <<state>>>>
    /\ result = <<>>

ReadFile ==
    /\ result = <<>>
    /\ result' = <<importFile(1, arg[1])>>
    /\ UNCHANGED <<hookVars, arg>>

NextImport == ReadFile

SpecImport == InitImport /\ [][NextImport]_vars

----------------------------------------------------------------------------
(* Properties of the import (checked under SpecImport).                    *)

ImportFileRead == arg[1]

Loaded == result # <<>> /\ result[1] # <<>>

LoadedState == result[1][1]

IdLess(json) ==
    \A i \in DOMAIN json.guests :
        Falsy(json.guests[i].id) /\ Falsy(json.guests[i].parentId)

LevelsOf(guests) ==
    LET tree == buildSocialTree(guests).treeNodes
    IN [i \in DOMAIN guests |-> TreeGet(tree, guests[i].id).level]

(* C19 as stated: in a file without ids, a guest whose parentName is the   *)
(* name of another guest of the file gets the fresh id of that guest as    *)
(* parentId; so an exported and re-imported state keeps who invited whom   *)
(* and every guest's level in the social tree.                             *)
C19_ParentNameResolved ==
    Loaded =>
        /\ IdLess(ImportFileRead) =>
             \A i, j \in DOMAIN ImportFileRead.guests :
                 (i # j /\ ImportFileRead.guests[i].parentName
                             = ImportFileRead.guests[j].name)
                 => LoadedState.guests[i].parentId = LoadedState.guests[j].id
        /\ arg[2] # <<>> =>
             /\ \A i, j \in DOMAIN arg[2][1].guests :
                    (arg[2][1].guests[i].parentId = arg[2][1].guests[j].id)
                    <=> (LoadedState.guests[i].parentId
                           = LoadedState.guests[j].id)
             /\ LevelsOf(LoadedState.guests) = LevelsOf(arg[2][1].guests)

NamesNoGuest(json, g) ==
    /\ Falsy(g.parentId)
       \/ \A j \in DOMAIN json.guests : json.guests[j].id # g.parentId
    /\ Falsy(g.parentName)
       \/ \A j \in DOMAIN json.guests : json.guests[j].name # g.parentName

YieldsNoGroup(json) ==
    /\ json.guestGroups = <<>>
    /\ \A i \in DOMAIN json.guests : Falsy(GroupNameOf(json.guests[i]))

(* C20 as stated: a file with a budgetTotal and a guest array is always    *)
(* loaded; a guest whose parent name and old parentId match no guest of    *)
(* the file is loaded without parentId; every guest gets the id of a       *)
(* loaded group, the first one when it names no group; a file that yields  *)
(* no group gets the default groups.                                       *)
C20_InconsistentReferencesAbsorbed ==
    (result # <<>> /\ ImportFileRead.budgetTotal # <<>>
     /\ ImportFileRead.isArray) =>
        /\ result[1] # <<>>
        /\ Len(LoadedState.guests) = Len(ImportFileRead.guests)
        /\ \A i \in DOMAIN ImportFileRead.guests :
             LET g == ImportFileRead.guests[i]
                 out == LoadedState.guests[i]
             IN /\ NamesNoGuest(ImportFileRead, g) => out.parentId = Undefined
                /\ \E k \in DOMAIN LoadedState.guestGroups :
                       LoadedState.guestGroups[k].id = out.groupId
                /\ Falsy(GroupNameOf(g)) =>
                       out.groupId = LoadedState.guestGroups[1].id
        /\ YieldsNoGroup(ImportFileRead) =>
             [k \in DOMAIN LoadedState.guestGroups |->
                 LoadedState.guestGroups[k].name]
             = [k \in DOMAIN INITIAL_GROUPS |-> INITIAL_GROUPS[k].name]

(* A file in which no id, name or reference is a key of Object.prototype. *)
PlainFile(json) ==
    /\ \A i \in DOMAIN json.guests :
          {json.guests[i].id, json.guests[i].name, json.guests[i].group,
           json.guests[i].groupName, json.guests[i].parentId,
           json.guests[i].parentName} \cap ObjectPrototypeKeys = {}
    /\ \A i \in DOMAIN json.guestGroups :
          json.guestGroups[i].name \notin ObjectPrototypeKeys

(* The same, for files without keys of Object.prototype. *)
AbsorbedForPlainNames ==
    PlainFile(ImportFileRead)
    => C20_InconsistentReferencesAbsorbed

----------------------------------------------------------------------------
(* Further properties of the hook on the page (checked under SpecPage).    *)

(* C21: hasPendingChanges() is true exactly when one of the nine arrays of *)
(* getDeltas() is non-empty or the budgetTotal delta is set, and the       *)
(* budgetTotal delta is set, to the present's value (0 included), exactly  *)
(* when present.budgetTotal differs from baseline.budgetTotal.             *)
C21_PendingIffDeltaNonEmpty ==
    /\ hasPendingChanges(present, baseline, baselineIds)
         <=> (NineArrays(PendingDelta) > 0 \/ PendingDelta.budgetTotal # <<>>)
    /\ PendingDelta.budgetTotal # <<>>
         <=> present.budgetTotal # baseline.budgetTotal
    /\ PendingDelta.budgetTotal # <<>>
         => PendingDelta.budgetTotal = <<present.budgetTotal>>

(* A budget of 60000 was saved and the edit undone: the only pending       *)
(* change is the budgetTotal, back at 0.                                   *)
C21_Witness ==
    /\ PendingDelta.budgetTotal = <<0>>
    /\ NineArrays(PendingDelta) = 0
    /\ baseline.budgetTotal = InitialBudget
    /\ hasPendingChanges(present, baseline, baselineIds)

----------------------------------------------------------------------------
(* Further properties of the history store (checked under Spec).           *)

UniqueIds(state) ==
    /\ DistinctIds(state.guests)
    /\ DistinctIds(state.guestGroups)
    /\ DistinctIds(state.expenses)

AllUniqueIds(h) == \A i \in DOMAIN Timeline(h) : UniqueIds(Timeline(h)[i])

(* The entities an action adds carry ids that the collection does not     *)
(* have yet, and a state it installs has unique ids.                      *)
AddsFreshIds(action, state) ==
    CASE action.type = "SET_STATE" ->
            action.ref = "present" \/ UniqueIds(action.payload)
      [] action.type = "ADD_EXPENSE" ->
            ~MapHas(state.expenses, action.payload.id)
      [] action.type = "ADD_GUEST" ->
            ~MapHas(state.guests, action.payload.id)
      [] action.type = "ADD_GUEST_GROUP" ->
            ~MapHas(state.guestGroups, action.payload.id)
      [] action.type = "BULK_ADD_GUESTS" ->
            /\ DistinctIds(action.payload)
            /\ \A i \in DOMAIN action.payload :
                   ~MapHas(state.guests, action.payload[i].id)
      [] OTHER -> TRUE

(* C22 as stated: in every state reached by execute, undo and redo from a  *)
(* state with unique ids, no two guests, no two groups and no two expenses *)
(* of present share an id.                                                 *)
C22_IdsUnique == UniqueIds(present)

(* C22 amended: execute, undo and redo keep the ids of every state of the  *)
(* history unique provided the entities an execute adds carry ids that     *)
(* the collection of present does not have yet (distinct within one bulk   *)
(* add) and a state given to SET_STATE has unique ids.                     *)
C22_IdsUniqueForFreshIds ==
    (/\ lastOp.op \in {"execute", "undo", "redo"}
     /\ AllUniqueIds(BeforeHistory)
     /\ lastOp.op = "execute" =>
            AddsFreshIds(lastOp.action, lastOp.before.present))
    => AllUniqueIds(history)

(* A guest with a new id was added to a list that had a guest, in a       *)
(* history of three states or more, all with unique ids.                  *)
C22_Witness ==
    /\ lastOp.op = "execute"
    /\ lastOp.action.type \in {"ADD_GUEST", "BULK_ADD_GUESTS"}
    /\ AddsFreshIds(lastOp.action, lastOp.before.present)
    /\ Len(present.guests) >= 2
    /\ Len(past) >= 2
    /\ AllUniqueIds(history)

(* C23: execute(DELETE_GUEST_GROUP id) removes the group with that id and  *)
(* nothing else: the other groups, the guests - those of the deleted group *)
(* included, with their groupId -, the expenses and budgetTotal stay.      *)
C23_GroupDeleteDoesNotCascade ==
    (lastOp.op = "execute" /\ lastOp.action.type = "DELETE_GUEST_GROUP") =>
        LET b == lastOp.before.present
            id == lastOp.action.payload
        IN /\ present.guestGroups =
                Keep(b.guestGroups, {g \in Range(b.guestGroups) : g.id # id})
           /\ present.guests = b.guests
           /\ present.expenses = b.expenses
           /\ present.budgetTotal = b.budgetTotal

(* The group of Ana was deleted and Ana is still there, in that group. *)
C23_Witness ==
    /\ lastOp.op = "execute"
    /\ lastOp.action.type = "DELETE_GUEST_GROUP"
    /\ MapHas(lastOp.before.present.guestGroups, lastOp.action.payload)
    /\ ~MapHas(present.guestGroups, lastOp.action.payload)
    /\ \E i \in DOMAIN present.guests :
           present.guests[i].groupId = lastOp.action.payload

----------------------------------------------------------------------------
(* Further properties of the social tree (checked under SpecTree).         *)

(* C24: a second call of buildSocialTree on the same guest list returns    *)
(* the same level, chain, childCount and isRoot for every guest, in the    *)
(* same map order, and neither call modifies the guest list.               *)
C24_BuildIsIdempotent ==
    /\ Len(result) >= 1 => result[1].guests = TreeInput
    /\ Len(result) = 2 =>
         /\ result[2].guests = TreeInput
         /\ result[2].thrown = result[1].thrown
         /\ Len(result[2].treeNodes) = Len(result[1].treeNodes)
         /\ \A i \in DOMAIN result[1].treeNodes :
                LET a == result[1].treeNodes[i]
                    b == result[2].treeNodes[i]
                IN /\ a.guest.id = b.guest.id
                   /\ a.level = b.level
                   /\ a.chain = b.chain
                   /\ a.childCount = b.childCount
                   /\ a.isRoot = b.isRoot

(* Two calls on a list of three guests with a chain g3 -> g2 -> g1 whose   *)
(* child counts were incremented.                                          *)
C24_Witness ==
    /\ Len(result) = 2
    /\ Len(TreeInput) = 3
    /\ ~result[2].thrown
    /\ \E i \in DOMAIN result[2].treeNodes : result[2].treeNodes[i].level = 2
    /\ \E i \in DOMAIN result[2].treeNodes :
           result[2].treeNodes[i].childCount = 2

----------------------------------------------------------------------------
(* Further properties of the delta engine on the page (SpecPage).          *)

(* A loadState() has run: by the arrival of the event or by an import. *)
StateWasLoaded == dataLoaded \/ lastSync.by = "import"

(* A collection delta applied to a collection: the deleted ids removed,    *)
(* the updated records put in place of those with their id, the created    *)
(* records added.                                                          *)
ApplyCollectionDelta(base, d) ==
    LET kept == Keep(base, {b \in Range(base) : b.id \notin Range(d.deleted)})
        replaced == [i \in DOMAIN kept |->
                        IF MapHas(d.updated, kept[i].id)
                        THEN MapGet(d.updated, kept[i].id) ELSE kept[i]]
    IN replaced \o d.created

ApplyDelta(base, d) ==
    AppState(IF d.budgetTotal # <<>> THEN d.budgetTotal[1] ELSE base.budgetTotal,
             ApplyCollectionDelta(base.expenses, d.expenses),
             ApplyCollectionDelta(base.guests, d.guests),
             ApplyCollectionDelta(base.guestGroups, d.guestGroups))

(* The id-to-record mapping of a collection. *)
RecordsById(entities) == {<<e.id, e>> : e \in Range(entities)}

SameRecords(s, t) ==
    /\ s.budgetTotal = t.budgetTotal
    /\ RecordsById(s.guests) = RecordsById(t.guests)
    /\ RecordsById(s.guestGroups) = RecordsById(t.guestGroups)
    /\ RecordsById(s.expenses) = RecordsById(t.expenses)

(* C25: once a state was loaded, getDeltas() applied to the baseline gives *)
(* a state with the budgetTotal of present and, per collection, the        *)
(* id-to-record mapping of present.                                        *)
C25_DeltaSufficient ==
    StateWasLoaded => SameRecords(ApplyDelta(baseline, PendingDelta), present)

(* Ana deleted, Bia created and the budget changed since the last sync. *)
C25_Witness ==
    /\ StateWasLoaded
    /\ PendingDelta.guests.deleted = <<"g1">>
    /\ PendingDelta.guests.created = <<gBia>>
    /\ PendingDelta.budgetTotal # <<>>
    /\ ~SameRecords(baseline, present)

IdsOf(entities) == {e.id : e \in Range(entities)}

BaselineIdsMatch ==
    /\ Range(baselineIds.guests) = IdsOf(baseline.guests)
    /\ Range(baselineIds.guestGroups) = IdsOf(baseline.guestGroups)
    /\ Range(baselineIds.expenses) = IdsOf(baseline.expenses)

NothingCreated(d) ==
    /\ d.guests.created = <<>>
    /\ d.guestGroups.created = <<>>
    /\ d.expenses.created = <<>>

(* C26 as stated: in every state, the one right after construction         *)
(* included, baselineIds holds for each collection exactly the ids of      *)
(* that collection of baseline, so getDeltas() on a hook that was not      *)
(* edited reports no created entity.                                       *)
C26_BaselineIdsAreIdsOfBaseline ==
    /\ BaselineIdsMatch
    /\ present = baseline => NothingCreated(PendingDelta)

(* The same once a loadState() has run. *)
BaselineIdsMatchOnceLoaded == StateWasLoaded => C26_BaselineIdsAreIdsOfBaseline

----------------------------------------------------------------------------
(* Auto-save (checked under SpecAutoSave).                                 *)

AllPersisted ==
    /\ ~hasPendingChanges(present, baseline, baselineIds)
    /\ baseline = present

(* C27 as stated: with writes that always succeed and a user who stops     *)
(* editing, auto-save alone eventually persists every edit, the edits made *)
(* after the interval was started included: from some point on             *)
(* hasPendingChanges() is false and the baseline is present.               *)
C27_AutoSaveEventuallyPersists == <>[]AllPersisted

----------------------------------------------------------------------------
(* Writes in flight (checked under SpecPage).                              *)

SaveWrites == {w \in inflight : w.awaited}

CreatedIn(w) ==
    IdsOf(w.delta.guests.created) \cup IdsOf(w.delta.guestGroups.created)
    \cup IdsOf(w.delta.expenses.created)

(* C28 as stated: at most one write of a save is in flight at any time -   *)
(* neither the save button nor an auto-save tick starts one while an       *)
(* earlier save has not completed -, so no created entity is carried by    *)
(* two writes.                                                             *)
C28_OneWriteInFlight ==
    /\ Cardinality(SaveWrites) <= 1
    /\ \A w1, w2 \in SaveWrites :
           w1 # w2 => CreatedIn(w1) \cap CreatedIn(w2) = {}

BaselineSame == baseline' = baseline /\ baselineIds' = baselineIds

HistorySame == past' = past /\ present' = present /\ future' = future

(* C29: execute, undo and redo leave baseline and baselineIds unchanged,   *)
(* and a step that calls getDeltas() and hasPendingChanges() only - a      *)
(* handleSave up to its await, a render - leaves baseline, baselineIds,    *)
(* past, present and future unchanged; the baseline changes in loadState   *)
(* and markAsSynced only.                                                  *)
C29_OnlyLoadAndSyncMoveBaseline ==
    [][/\ lastOp'.op \in {"execute", "undo", "redo"} => BaselineSame
       /\ lastOp'.op = "saveStart" => (BaselineSame /\ HistorySame)
       /\ ~BaselineSame =>
            lastOp'.op \in {"loadState", "import", "saveSucceeds",
                            "saveNoChange"}]_vars

(* An edit was saved and then undone: the baseline is the saved state,     *)
(* not the present and not the state that was loaded.                      *)
C29_Witness ==
    /\ lastOp.op = "undo"
    /\ lastSync.by = "save"
    /\ baseline # present
    /\ baseline # ServerState
    /\ baselineIds = IdSets(baseline)
    /\ hasPendingChanges(present, baseline, baselineIds)

(* C30 as stated: hasPendingChanges() is false exactly when present and    *)
(* baseline have the same budgetTotal and, per collection, the same        *)
(* id-to-record mapping; in particular an execute followed by an undo on   *)
(* a just-synced state brings it back to false.                            *)
C30_PendingIffRecordsDiffer ==
    /\ hasPendingChanges(present, baseline, baselineIds)
         <=> ~SameRecords(present, baseline)
    /\ (lastOp.op = "undo" /\ present = baseline) =>
           ~hasPendingChanges(present, baseline, baselineIds)

(* The same once a loadState() has run. *)
PendingIffRecordsDifferOnceLoaded ==
    StateWasLoaded => C30_PendingIffRecordsDiffer

----------------------------------------------------------------------------
(* handleSave and its writes (checked under SpecPage).                     *)

ReportsChange(d) == NineArrays(d) > 0 \/ d.budgetTotal # <<>>

WriteSeqs(writes) == {w.seq : w \in writes}

(* C31: handleSave issues exactly one write, a delta or the full state,    *)
(* when getDeltas() reports a change - a changed budgetTotal alone         *)
(* included - and none when it reports no change; the baseline advances    *)
(* when the write has succeeded or there was none, never when it threw.    *)
C31_OneWritePerSave ==
    [][/\ lastOp'.op = "saveStart" =>
            LET d == getDeltas(lastOp'.state, baseline, baselineIds)
            IN /\ ReportsChange(d)
               /\ \E w \in inflight' \ inflight :
                      /\ inflight' = inflight \cup {w}
                      /\ w.kind \in {"delta", "full"}
                      /\ w.delta = d
               /\ BaselineSame
       /\ lastOp'.op = "saveNoChange" =>
            /\ ~ReportsChange(getDeltas(lastOp'.state, baseline, baselineIds))
            /\ WriteSeqs(inflight') = WriteSeqs(inflight)
       /\ lastOp'.op = "saveFails" =>
            (BaselineSame /\ WriteSeqs(inflight') \subseteq WriteSeqs(inflight))
       /\ lastOp'.op = "saveSucceeds" =>
            WriteSeqs(inflight') \subseteq WriteSeqs(inflight)]_vars

(* A save of a changed budgetTotal and nothing else: one delta write. *)
C31_Witness ==
    /\ lastOp.op = "saveStart"
    /\ \E w \in inflight :
           /\ w.awaited
           /\ w.kind = "delta"
           /\ NineArrays(w.delta) = 0
           /\ w.delta.budgetTotal # <<>>

----------------------------------------------------------------------------
(* The per-root hierarchy of the PDF export (exportGuestsToPDF in          *)
(* src/src/lib/export.ts).  A TreeItem is the guest, its node, its level   *)
(* and its children; the back-reference `parent` is left out.  A call      *)
(* returns [thrown, item]: thrown is the RangeError of a call stack that   *)
(* exceeded StackLimit.                                                    *)

TreeItem(guest, node, level, children) ==
    [guest |-> guest, node |-> node, level |-> level, children |-> children]

RECURSIVE insertByInfluence(_, _)
(* `item` placed after every item of the sorted list whose childCount is  *)
(* not smaller: Array.prototype.sort is stable.                           *)
insertByInfluence(sorted, item) ==
    IF sorted = <<>> THEN <<item>>
    ELSE IF Head(sorted).node.childCount >= item.node.childCount
         THEN <<Head(sorted)>> \o insertByInfluence(Tail(sorted), item)
         ELSE <<item>> \o sorted

RECURSIVE sortByInfluence(_)
(* children.sort((a, b) => b.node.childCount - a.node.childCount) *)
sortByInfluence(items) ==
    IF items = <<>> THEN <<>>
    ELSE insertByInfluence(sortByInfluence(SubSeq(items, 1, Len(items) - 1)),
                           items[Len(items)])

RECURSIVE childrenOfGuest(_, _)
(* guests.filter(g => g.parentId === id) *)
childrenOfGuest(guests, id) ==
    IF guests = <<>> THEN <<>>
    ELSE IF Head(guests).parentId = id
         THEN <<Head(guests)>> \o childrenOfGuest(Tail(guests), id)
         ELSE childrenOfGuest(Tail(guests), id)

RECURSIVE findChildren(_, _, _, _)
RECURSIVE findChildrenLoop(_, _, _, _, _, _)

(* for (const child of children) { ... findChildren(childItem) } *)
findChildrenLoop(guests, socialTree, parent, children, i, depth) ==
    IF i > Len(children) THEN [thrown |-> FALSE, item |-> parent]
    ELSE IF ~TreeHas(socialTree, children[i].id)
    THEN findChildrenLoop(guests, socialTree, parent, children, i + 1, depth)
    ELSE LET childItem == TreeItem(children[i],
                                   TreeGet(socialTree, children[i].id),
                                   parent.level + 1, <<>>)
             r == findChildren(guests, socialTree, childItem, depth + 1)
         IN IF r.thrown THEN [thrown |-> TRUE, item |-> parent]
            ELSE findChildrenLoop(guests, socialTree,
                     [parent EXCEPT !.children = Append(@, r.item)],
                     children, i + 1, depth)

findChildren(guests, socialTree, parent, depth) ==
    IF depth > StackLimit THEN [thrown |-> TRUE, item |-> parent]
    ELSE LET r == findChildrenLoop(guests, socialTree, parent,
                      childrenOfGuest(guests, parent.guest.id), 1, depth)
         IN IF r.thrown THEN r
            ELSE [thrown |-> FALSE,
                  item |-> [r.item EXCEPT !.children = sortByInfluence(@)]]

buildTreeForRoot(guests, socialTree, rootGuest) ==
    findChildren(guests, socialTree,
                 TreeItem(rootGuest, TreeGet(socialTree, rootGuest.id), 0, <<>>),
                 1)

RECURSIVE rootsOf(_, _)
(* guests.filter(g => socialTree.get(g.id)?.isRoot) *)
rootsOf(guests, socialTree) ==
    IF guests = <<>> THEN <<>>
    ELSE IF /\ TreeHas(socialTree, Head(guests).id)
            /\ TreeGet(socialTree, Head(guests).id).isRoot
         THEN <<Head(guests)>> \o rootsOf(Tail(guests), socialTree)
         ELSE rootsOf(Tail(guests), socialTree)

RECURSIVE insertRoot(_, _, _)
insertRoot(sorted, guest, socialTree) ==
    IF sorted = <<>> THEN <<guest>>
    ELSE IF TreeGet(socialTree, Head(sorted).id).childCount
              >= TreeGet(socialTree, guest.id).childCount
         THEN <<Head(sorted)>> \o insertRoot(Tail(sorted), guest, socialTree)
         ELSE <<guest>> \o sorted

RECURSIVE sortRoots(_, _)
(* .sort((a, b) => (nodeB?.childCount || 0) - (nodeA?.childCount || 0)) *)
sortRoots(roots, socialTree) ==
    IF roots = <<>> THEN <<>>
    ELSE insertRoot(sortRoots(SubSeq(roots, 1, Len(roots) - 1), socialTree),
                    roots[Len(roots)], socialTree)

RECURSIVE mapBuildTreeForRoot(_, _, _, _, _)
(* roots.map(r => buildTreeForRoot(r)) *)
mapBuildTreeForRoot(guests, socialTree, roots, i, acc) ==
    IF i > Len(roots) THEN [thrown |-> FALSE, trees |-> acc]
    ELSE LET r == buildTreeForRoot(guests, socialTree, roots[i])
         IN IF r.thrown THEN [thrown |-> TRUE, trees |-> acc]
            ELSE mapBuildTreeForRoot(guests, socialTree, roots, i + 1,
                                     Append(acc, r.item))

(* socialTree = buildSocialTree(guests); roots; trees *)
(* A RangeError of buildSocialTree ends the export before any tree. *)
buildTrees(guests) ==
    LET built == buildSocialTree(guests)
        socialTree == built.treeNodes
        roots == sortRoots(rootsOf(guests, socialTree), socialTree)
    IN IF built.thrown THEN [thrown |-> TRUE, trees |-> <<>>]
       ELSE mapBuildTreeForRoot(guests, socialTree, roots, 1, <<>>)

InitHierarchy ==
    /\ InitHook
    /\ \E c \in GuestLists : arg = <<ListOf(c)>>
    /\ result = <<>>

BuildHierarchy ==
    /\ result = <<>>
    /\ result' = <<buildTrees(arg[1])>>
    /\ UNCHANGED <<hookVars, arg>>

NextHierarchy == BuildHierarchy

SpecHierarchy == InitHierarchy /\ [][NextHierarchy]_vars

(* C32 as stated: building the per-root hierarchy terminates - no call     *)
(* stack overflow - for every guest list, those in which a guest marked    *)
(* isRoot lies on a parentId cycle or is its own parent included.          *)
C32_HierarchyTerminates == result # <<>> => ~result[1].thrown

RootOnCycle(guests) ==
    \E i \in DOMAIN guests :
        guests[i].isRoot = "true" /\ OnCycle(guests, guests[i])

(* The same, for lists in which no guest marked isRoot lies on a cycle. *)
HierarchyTerminatesWithoutRootOnCycle ==
    (result # <<>> /\ ~RootOnCycle(arg[1])) => ~result[1].thrown

----------------------------------------------------------------------------
(* buildSocialTree on a guest list and on the same guests in another       *)
(* order, as the server's "order by name" gives after a rename.            *)

(* Reorderings of a list of n guests: the reversal, the rotation by one    *)
(* and the swap of the first two guests.                                   *)
Reorderings(n) ==
    {[i \in 1..n |-> n + 1 - i],
     [i \in 1..n |-> (i % n) + 1],
     [i \in 1..n |-> IF i = 1 /\ n >= 2 THEN 2
                     ELSE IF i = 2 THEN 1 ELSE i]}

Reordered(guests, p) == [i \in DOMAIN guests |-> guests[p[i]]]

InitOrder ==
    /\ InitHook
    /\ \E c \in GuestLists : arg = <<ListOf(c)>>
    /\ result = <<>>

BuildReordered(p) ==
    /\ result = <<>>
    /\ result' = <<callBuildSocialTree(arg[1]),
                   callBuildSocialTree(Reordered(arg[1], p))>>
    /\ UNCHANGED <<hookVars, arg>>

NextOrder == \E p \in Reorderings(Len(arg[1])) : BuildReordered(p)

SpecOrder == InitOrder /\ [][NextOrder]_vars

(* level, chain, childCount and isRoot of each id. *)
OutputById(treeNodes) ==
    {<<t.guest.id, t.level, t.chain, t.childCount, t.isRoot>> :
        t \in Range(treeNodes)}

SameOutput ==
    /\ result[1].thrown = result[2].thrown
    /\ OutputById(result[1].treeNodes) = OutputById(result[2].treeNodes)

(* Walking up from every guest of the list ends at a guest marked isRoot   *)
(* or without a parent in the list.                                        *)
ChainsEnd(guests) ==
    \A i \in DOMAIN guests :
        \E k \in 0..Len(guests) :
            /\ HasGuest(guests, PtrUpN(guests, guests[i].id, k))
            /\ EndsChain(guests, GuestWith(guests, PtrUpN(guests, guests[i].id, k)))
            /\ \A j \in 0..(k - 1) :
                   HasGuest(guests, PtrUpN(guests, guests[i].id, j))

(* C33 as stated: for every guest list with unique ids, dangling and       *)
(* cyclic parent links included, level, chain, childCount and isRoot of    *)
(* each id do not depend on the order of the guests in the list.           *)
C33_OrderIndependent == result # <<>> => SameOutput

(* C33 amended: the output does not depend on the order of the guests for  *)
(* every list with unique ids, dangling parent links included, in which    *)
(* the parent chain of every guest ends at a guest marked isRoot or        *)
(* without a parent in the list, that is, with no parentId cycle free of   *)
(* guests marked isRoot.                                                   *)
C33_OrderIndependentWhenChainsEnd ==
    (result # <<>> /\ ChainsEnd(arg[1])) => SameOutput

(* Three guests in a chain g1 <- g2 <- g3 with a dangling link at its top, *)
(* built in two orders, with levels 0, 1 and 2.                            *)
C33_Witness ==
    /\ result # <<>>
    /\ Len(arg[1]) = 3
    /\ ChainsEnd(arg[1])
    /\ result[2].guests # arg[1]
    /\ arg[1][1].parentId = DanglingId
    /\ \E i \in DOMAIN result[2].treeNodes :
           result[2].treeNodes[i].level = 2 /\
           result[2].treeNodes[i].guest.id = "g3"
    /\ \E i \in DOMAIN result[2].treeNodes :
           result[2].treeNodes[i].childCount = 2

----------------------------------------------------------------------------
(* Influence counts (checked under SpecTree).                              *)

(* C34 as stated: no guest is counted in its own influence; for every      *)
(* guest list, self-referential and cyclic parent links included, the      *)
(* childCount of each guest is at most the number of other guests.         *)
C34_NotCountedInOwnInfluence ==
    Built =>
        \A i \in DOMAIN result[1].treeNodes :
            result[1].treeNodes[i].childCount <= Len(TreeInput) - 1

(* The same, for lists in which the parent chain of every guest ends. *)
NotCountedInOwnInfluenceWhenChainsEnd ==
    ChainsEnd(TreeInput) => C34_NotCountedInOwnInfluence

----------------------------------------------------------------------------
(* Deleting a guest that has children (checked under Spec).                *)

FormerChildren(guests, id) ==
    {g \in Range(guests) : g.parentId = id /\ g.id # id}

(* C35: execute(DELETE_GUEST id) of a guest that has children removes the  *)
(* guest and changes no other guest record - the children keep their       *)
(* parentId, now dangling - and buildSocialTree on the new present gives   *)
(* each former child level 0, chain = [own name] and isRoot.               *)
C35_DeleteGuestOrphansChildren ==
    (/\ lastOp.op = "execute"
     /\ lastOp.action.type = "DELETE_GUEST"
     /\ FormerChildren(lastOp.before.present.guests, lastOp.action.payload) # {})
    => LET b == lastOp.before.present
           id == lastOp.action.payload
           tree == buildSocialTree(present.guests)
       IN /\ present.guests = Keep(b.guests, {g \in Range(b.guests) : g.id # id})
          /\ present.guestGroups = b.guestGroups
          /\ present.expenses = b.expenses
          /\ present.budgetTotal = b.budgetTotal
          /\ ~tree.thrown
          /\ \A c \in FormerChildren(b.guests, id) :
                 /\ c \in Range(present.guests)
                 /\ TreeHas(tree.treeNodes, c.id)
                 /\ TreeGet(tree.treeNodes, c.id).level = 0
                 /\ TreeGet(tree.treeNodes, c.id).chain = <<c.name>>
                 /\ TreeGet(tree.treeNodes, c.id).isRoot

(* Ana was deleted while Bia, invited by Ana, was in the list: before the  *)
(* deletion Bia was at level 1.                                            *)
C35_Witness ==
    /\ lastOp.op = "execute"
    /\ lastOp.action.type = "DELETE_GUEST"
    /\ UniqueIds(lastOp.before.present)
    /\ MapHas(lastOp.before.present.guests, lastOp.action.payload)
    /\ gBia \in FormerChildren(lastOp.before.present.guests, lastOp.action.payload)
    /\ TreeGet(buildSocialTree(lastOp.before.present.guests).treeNodes, "g2").level = 1
    /\ gBia \in Range(present.guests)

----------------------------------------------------------------------------
(* Referential consistency of the imported state (checked under           *)
(* SpecImport).                                                            *)

GroupIdsKnown(state) ==
    \A i \in DOMAIN state.guests :
        state.guests[i].groupId \in IdsOf(state.guestGroups)

ParentIdsKnown(state) ==
    \A i \in DOMAIN state.guests :
        state.guests[i].parentId = Undefined
        \/ state.guests[i].parentId \in IdsOf(state.guests)

(* C36: the state loaded from an accepted file is referentially           *)
(* consistent: guest ids, group ids and expense ids are pairwise distinct, *)
(* every guest's groupId is the id of a loaded group and every parentId    *)
(* that is set is the id of a loaded guest.                                *)
C36_ImportedStateConsistent ==
    Loaded =>
        /\ UniqueIds(LoadedState)
        /\ GroupIdsKnown(LoadedState)
        /\ ParentIdsKnown(LoadedState)

OldIdsDistinct(json) ==
    \A i, j \in DOMAIN json.guests :
        (i # j /\ ~Falsy(json.guests[i].id))
        => json.guests[i].id # json.guests[j].id

(* The same, for files whose old ids are distinct and that have no key of  *)
(* Object.prototype.                                                       *)
ConsistentForPlainFiles ==
    (OldIdsDistinct(ImportFileRead) /\ PlainFile(ImportFileRead))
    => C36_ImportedStateConsistent

(* The parts of the claim that hold for every file read. *)
GroupAndExpenseIdsDistinct ==
    Loaded =>
        /\ DistinctIds(LoadedState.guestGroups)
        /\ DistinctIds(LoadedState.expenses)

DuplicateOldIdLoaded ==
    /\ Loaded
    /\ ImportFileRead = FileWithOneIdTwice
    /\ LoadedState.guests[1].id = LoadedState.guests[2].id

----------------------------------------------------------------------------
(* The syncDelta mutation of the server (server/src/routers/events.ts):    *)
(* the SQL statements it builds for one delta, in order.  A statement is   *)
(* its verb, its table and the rows it names: the ids of a DELETE, the     *)
(* records of an INSERT, the one record of an UPDATE.                      *)

MaxUpdated == 2     \* entries in an updated array of a delta

Statement(verb, table, rows) == [verb |-> verb, table |-> table, rows |-> rows]

(* if (input.budgetTotal !== undefined) statements.push(UPDATE events ...) *)
budgetStatement(input) ==
    IF input.budgetTotal # <<>>
    THEN <<Statement("UPDATE", "events", input.budgetTotal)>> ELSE <<>>

(* if (deleted.length > 0) statements.push(DELETE FROM table ...) *)
deleteStatement(table, deleted) ==
    IF Len(deleted) > 0 THEN <<Statement("DELETE", table, deleted)>> ELSE <<>>

(* if (created.length > 0) statements.push(INSERT INTO table ...) *)
insertStatement(table, created) ==
    IF Len(created) > 0 THEN <<Statement("INSERT", table, created)>> ELSE <<>>

(* for (const e of updated) statements.push(UPDATE table ...) *)
updateStatements(table, updated) ==
    [i \in DOMAIN updated |-> Statement("UPDATE", table, <<updated[i]>>)]

statementsOf_GuestsFirst(input) ==
    budgetStatement(input)
    \o deleteStatement("guests", input.guests.deleted)
    \o deleteStatement("guest_groups", input.guestGroups.deleted)
    \o deleteStatement("expenses", input.expenses.deleted)
    \o insertStatement("guests", input.guests.created)
    \o insertStatement("guest_groups", input.guestGroups.created)
    \o insertStatement("expenses", input.expenses.created)
    \o updateStatements("guest_groups", input.guestGroups.updated)
    \o updateStatements("expenses", input.expenses.updated)
    \o updateStatements("guests", input.guests.updated)

statementsOf(input) ==
    budgetStatement(input)
    \o deleteStatement("guests", input.guests.deleted)
    \o deleteStatement("guest_groups", input.guestGroups.deleted)
    \o deleteStatement("expenses", input.expenses.deleted)
    \o insertStatement("guest_groups", input.guestGroups.created)
    \o insertStatement("expenses", input.expenses.created)
    \o insertStatement("guests", input.guests.created)
    \o updateStatements("guest_groups", input.guestGroups.updated)
    \o updateStatements("expenses", input.expenses.updated)
    \o updateStatements("guests", input.guests.updated)

(* One run of the mutation: where it stands ("findFirst": awaiting the     *)
(* ownership query, "execute": awaiting $executeRawUnsafe, "done"), the    *)
(* statements it built, whether it sent them, what it threw and whether it *)
(* returned { success: true }.                                             *)
Call(pc, statements, executed, thrown, success) ==
    [pc |-> pc, statements |-> statements, executed |-> executed,
     thrown |-> thrown, success |-> success]

(* The mutation has called ctx.prisma.event.findFirst and awaits it. *)
Called == Call("findFirst", <<>>, FALSE, Undefined, FALSE)

(* findFirst settles.  Its rejection is let through to the caller; without *)
(* the event the mutation throws NOT_FOUND; either way no statement is     *)
(* built.  Otherwise it builds the statements and, if there is any, sends  *)
(* them joined as one query to $executeRawUnsafe and awaits it; with none  *)
(* it returns.                                                             *)
syncDelta(input, owned, rejects) ==
    IF rejects THEN Call("done", <<>>, FALSE, "findFirst rejected", FALSE)
    ELSE IF ~owned THEN Call("done", <<>>, FALSE, "NOT_FOUND", FALSE)
    ELSE IF Len(statementsOf(input)) > 0
    THEN Call("execute", statementsOf(input), TRUE, Undefined, FALSE)
    ELSE Call("done", <<>>, FALSE, Undefined, TRUE)

(* $executeRawUnsafe settles: its rejection is let through to the caller,  *)
(* otherwise the mutation returns { success: true, savedAt }.              *)
executeRawSettled(call, rejects) ==
    IF rejects
    THEN [call EXCEPT !.pc = "done", !.thrown = "query rejected"]
    ELSE [call EXCEPT !.pc = "done", !.success = TRUE]

(* The deltas received: a budget or none; in each created and deleted      *)
(* array one entry or none; in each updated array up to MaxUpdated         *)
(* entries.  The created guest is in the created group.                    *)
OneOrNone(e) == {<<>>, <<e>>}

UpdatedGuests(n) ==
    [i \in 1..n |-> Guest("gu" \o ToString(i), "Ana Maria", "grp2", FALSE,
                          Undefined, Undefined, GuestKeys)]

UpdatedGroups(n) ==
    [i \in 1..n |-> GuestGroup("grpu" \o ToString(i), "Amigos", "#0000ff")]

UpdatedExpenses(n) ==
    [i \in 1..n |-> ExpenseItem("eu" \o ToString(i), "Flores", 300, "true")]

ServerInputs ==
    {[budgetTotal |-> b,
      guests |-> [created |-> gc, updated |-> UpdatedGuests(gu), deleted |-> gd],
      guestGroups |-> [created |-> rc, updated |-> UpdatedGroups(ru),
                       deleted |-> rd],
      expenses |-> [created |-> ec, updated |-> UpdatedExpenses(eu),
                    deleted |-> ed]] :
        b \in {<<>>, <<InitialBudget>>},
        gc \in OneOrNone(gBia), gd \in OneOrNone("g9"),
        rc \in OneOrNone(grpCasal), rd \in OneOrNone("grp9"),
        ec \in OneOrNone(expNova), ed \in OneOrNone("e9"),
        gu \in 0..MaxUpdated, ru \in 0..MaxUpdated, eu \in 0..MaxUpdated}

(* A second request of the same client, started together with the first:  *)
(* a budget and one deleted guest, for an event of the caller.             *)
SecondRequest ==
    [input |-> [budgetTotal |-> <<InitialBudget>>,
                guests |-> [created |-> <<>>, updated |-> <<>>,
                            deleted |-> <<"g9">>],
                guestGroups |-> [created |-> <<>>, updated |-> <<>>,
                                 deleted |-> <<>>],
                expenses |-> [created |-> <<>>, updated |-> <<>>,
                              deleted |-> <<>>]],
     owned |-> TRUE]

(* arg: the two requests, each a delta and whether the event is one of the *)
(* caller's.  result: the two runs of the mutation, each awaiting          *)
(* findFirst, and the queries the database has received, in order.         *)
InitServer ==
    /\ InitHook
    /\ \E input \in ServerInputs, owned \in BOOLEAN :
          arg = <<[input |-> input, owned |-> owned], SecondRequest>>
    /\ result = [calls |-> <<Called, Called>>, queries |-> <<>>]

(* The ownership query of the r-th request settles, and the mutation runs  *)
(* up to its next await or its end.                                        *)
FindFirstSettles(r) ==
    /\ result.calls[r].pc = "findFirst"
    /\ \E rejects \in BOOLEAN :
          LET call == syncDelta(arg[r].input, arg[r].owned, rejects)
          IN result' = [calls |-> [result.calls EXCEPT ![r] = call],
                        queries |-> IF call.executed
                                    THEN Append(result.queries,
                                                [request |-> r,
                                                 statements |-> call.statements])
                                    ELSE result.queries]
    /\ UNCHANGED <<hookVars, arg>>

(* The query of the r-th request settles, and the mutation ends. *)
ExecuteRawSettles(r) ==
    /\ result.calls[r].pc = "execute"
    /\ \E rejects \in BOOLEAN :
          result' = [result EXCEPT
                       !.calls[r] = executeRawSettled(result.calls[r], rejects)]
    /\ UNCHANGED <<hookVars, arg>>

NextServer ==
    \/ \E r \in DOMAIN arg : FindFirstSettles(r)
    \/ \E r \in DOMAIN arg : ExecuteRawSettles(r)

SpecServer == InitServer /\ [][NextServer]_vars

----------------------------------------------------------------------------
(* Properties of syncDelta (checked under SpecServer).                     *)

(* The place of a statement in the order the claim gives. *)
PlaceOf(st) ==
    IF st.table = "events" THEN 0
    ELSE IF st.verb = "DELETE"
         THEN (IF st.table = "guests" THEN 1
               ELSE IF st.table = "guest_groups" THEN 2 ELSE 3)
    ELSE IF st.verb = "INSERT"
         THEN (IF st.table = "guest_groups" THEN 4
               ELSE IF st.table = "expenses" THEN 5 ELSE 6)
    ELSE (IF st.table = "guest_groups" THEN 7
          ELSE IF st.table = "expenses" THEN 8 ELSE 9)

IndicesOf(statements, verb, table) ==
    {i \in DOMAIN statements :
        statements[i].verb = verb /\ statements[i].table = table}

(* Every change of the delta is in exactly the statement of its kind. *)
StatementsCover(statements, input) ==
    /\ (input.budgetTotal # <<>>)
         <=> (IndicesOf(statements, "UPDATE", "events") # {})
    /\ \A t \in {<<"guests", input.guests>>,
                 <<"guest_groups", input.guestGroups>>,
                 <<"expenses", input.expenses>>} :
          /\ \A id \in Range(t[2].deleted) :
                Cardinality({i \in IndicesOf(statements, "DELETE", t[1]) :
                                id \in Range(statements[i].rows)}) = 1
          /\ \A e \in Range(t[2].created) :
                Cardinality({i \in IndicesOf(statements, "INSERT", t[1]) :
                                e \in Range(statements[i].rows)}) = 1
          /\ \A e \in Range(t[2].updated) :
                Cardinality({i \in IndicesOf(statements, "UPDATE", t[1]) :
                                statements[i].rows = <<e>>}) = 1
          /\ \A i \in IndicesOf(statements, "DELETE", t[1]) :
                statements[i].rows = t[2].deleted
          /\ \A i \in IndicesOf(statements, "INSERT", t[1]) :
                statements[i].rows = t[2].created

(* The r-th run found the event of the caller and built its statements. *)
Synced(r) ==
    /\ result.calls[r].pc # "findFirst"
    /\ result.calls[r].thrown \notin {"NOT_FOUND", "findFirst rejected"}

(* C37: the statements of a delta are in the fixed order budget update,    *)
(* deletes (guests, guest groups, expenses), creates (guest groups,        *)
(* expenses, guests), updates (guest groups, expenses, guests); so a guest *)
(* created together with its group is inserted after the group, and every  *)
(* delete precedes every create.  They are sent as the one query of their  *)
(* request, whatever another request does meanwhile.                       *)
C37_FixedStatementOrder ==
    /\ \A q \in DOMAIN result.queries :
          /\ result.queries[q].statements
                = result.calls[result.queries[q].request].statements
          /\ \A p \in DOMAIN result.queries :
                result.queries[p].request = result.queries[q].request => p = q
    /\ \A r \in DOMAIN arg :
          Synced(r) =>
            LET call == result.calls[r]
                st == call.statements
                input == arg[r].input
            IN /\ StatementsCover(st, input)
               /\ call.executed <=> (st # <<>>)
               /\ call.executed
                     <=> (\E q \in DOMAIN result.queries :
                             result.queries[q].request = r)
               /\ call.success <=> (call.pc = "done" /\ call.thrown = Undefined)
               /\ (call.thrown # Undefined) => call.executed
               /\ \A i, j \in DOMAIN st :
                     i < j =>
                        /\ PlaceOf(st[i]) <= PlaceOf(st[j])
                        /\ (PlaceOf(st[i]) = PlaceOf(st[j]))
                              => st[i].verb = "UPDATE"
               /\ \A i, j \in DOMAIN st :
                     (st[i].verb = "DELETE" /\ st[j].verb = "INSERT") => i < j
               /\ \A j \in IndicesOf(st, "INSERT", "guests") :
                     \A g \in Range(st[j].rows) :
                        g.groupId \in IdsOf(input.guestGroups.created)
                        => \E i \in IndicesOf(st, "INSERT", "guest_groups") :
                              /\ i < j
                              /\ g.groupId \in IdsOf(st[i].rows)

(* A delta that changes the budget, deletes from and updates every table   *)
(* and creates a guest together with its group was turned into statements  *)
(* and its mutation returned, the query of the second request having       *)
(* reached the database first.                                             *)
C37_Witness ==
    /\ Synced(1)
    /\ arg[1].input.budgetTotal # <<>>
    /\ arg[1].input.guests.created = <<gBia>>
    /\ arg[1].input.guestGroups.created = <<grpCasal>>
    /\ gBia.groupId = grpCasal.id
    /\ arg[1].input.expenses.created # <<>>
    /\ arg[1].input.guests.deleted # <<>>
    /\ arg[1].input.guestGroups.deleted # <<>>
    /\ arg[1].input.expenses.deleted # <<>>
    /\ Len(arg[1].input.guests.updated) = MaxUpdated
    /\ Len(arg[1].input.guestGroups.updated) > 0
    /\ Len(arg[1].input.expenses.updated) > 0
    /\ Len(result.calls[1].statements)
          = 7 + MaxUpdated + Len(arg[1].input.guestGroups.updated)
              + Len(arg[1].input.expenses.updated)
    /\ result.calls[1].executed
    /\ result.calls[1].success
    /\ Len(result.queries) = 2
    /\ result.queries[1].request = 2
    /\ result.calls[2].pc = "execute"

====
